---- MODULE Spec2Model ----
(***************************************************************************)
(* A model of the layered numeric engine of qntx/decimal: package uint128  *)
(* (two-limb unsigned integers), package uint256 (two Uint128 limbs) and   *)
(* the Decimal value type built on them.                                   *)
(*                                                                         *)
(* The source fixes the limb width at 64 bits.  The algorithms are written *)
(* limb by limb and never depend on the number 64 except through shift     *)
(* amounts and masks, so the model keeps every algorithm as written and    *)
(* makes the limb width the bound WordBits: a Uint128 is two limbs of      *)
(* WordBits bits, a Uint256 four.  Every constant the source derives from  *)
(* the limb width (64, 63, 127, 128, 255, 256) is derived here from        *)
(* WordBits in the same way.                                               *)
(***************************************************************************)
EXTENDS Integers, Sequences, FiniteSets, TLC

VARIABLES op, a, b, out

vars == <<op, a, b, out>>

\* Limb width in bits (uint64 in the source).
WordBits == 4

RECURSIVE Pow2(_)
Pow2(n) == IF n <= 0 THEN 1 ELSE 2 * Pow2(n - 1)

\* 2^64 in the source: the number of values of one limb.
WordMod == Pow2(WordBits)

\* math.MaxUint64
MaxUint64 == WordMod - 1

Words == 0 .. MaxUint64

\* The value "no result yet".
None == [kind |-> "none"]

(***************************************************************************)
(* math/bits, as the source calls it.  A run-time panic of a primitive is  *)
(* the value Panic, which every caller propagates.                         *)
(***************************************************************************)
Panic == [panic |-> "runtime error"]

\* bits.Add64(x, y, carry) = (sum, carryOut)
bitsAdd64(x, y, carry) ==
    [sum |-> (x + y + carry) % WordMod, carry |-> (x + y + carry) \div WordMod]

\* bits.Sub64(x, y, borrow) = (diff, borrowOut)
bitsSub64(x, y, borrow) ==
    [diff |-> (x - y - borrow + 2 * WordMod) % WordMod,
     borrow |-> IF x - y - borrow < 0 THEN 1 ELSE 0]

\* bits.Mul64(x, y) = (hi, lo)
bitsMul64(x, y) == [hi |-> (x * y) \div WordMod, lo |-> (x * y) % WordMod]

\* bits.Div64(hi, lo, y) = (quo, rem); panics for y = 0 and for y <= hi.
bitsDiv64(hi, lo, y) ==
    IF y = 0 \/ y <= hi
    THEN Panic
    ELSE [quo |-> (hi * WordMod + lo) \div y, rem |-> (hi * WordMod + lo) % y]

\* bits.Len64(x): the number of bits needed to represent x.
RECURSIVE bitsLen64(_)
bitsLen64(x) == IF x = 0 THEN 0 ELSE 1 + bitsLen64(x \div 2)

\* x << n and x >> n on one limb, Go semantics: a shift by the width or more gives 0.
ShlWord(x, n) == IF n >= WordBits THEN 0 ELSE (x * Pow2(n)) % WordMod

ShrWord(x, n) == IF n >= WordBits THEN 0 ELSE x \div Pow2(n)

\* x | y on one limb.
RECURSIVE OrWord(_, _)
OrWord(x, y) ==
    IF x = 0 THEN y
    ELSE IF y = 0 THEN x
    ELSE (IF x % 2 = 1 \/ y % 2 = 1 THEN 1 ELSE 0) + 2 * OrWord(x \div 2, y \div 2)

(***************************************************************************)
(* package uint128                                                         *)
(***************************************************************************)
\* type Uint128 struct { lo, hi uint64 }
Uint128 == [lo : Words, hi : Words]

\* New(lo, hi)
New(lo, hi) == [lo |-> lo, hi |-> hi]

\* NewFromUint64(v)
NewFromUint64(v) == New(v, 0)

\* var Zero Uint128
Zero128 == New(0, 0)

\* var Max = New(math.MaxUint64, math.MaxUint64)
Max128 == New(MaxUint64, MaxUint64)

\* The number a Uint128 stands for.
Val128(u) == u.hi * WordMod + u.lo

\* 2^128 in the source.
Mod128 == WordMod * WordMod

\* A checked result: a value and an error ("nil" for none).
Ok(v) == [val |-> v, err |-> "nil"]

Err(e) == [val |-> Zero128, err |-> e]

\* Add with the carry out of the low limb dropped.
Uint128_Add_CarryDropped(u, v) ==
    LET s0 == bitsAdd64(u.lo, v.lo, 0)
        s1 == bitsAdd64(u.hi, v.hi, 0)
    IN IF s1.carry # 0 THEN Err("ErrOverflow") ELSE Ok(New(s0.sum, s1.sum))

\* Uint128.Add
Uint128_Add(u, v) ==
    LET s0 == bitsAdd64(u.lo, v.lo, 0)
        s1 == bitsAdd64(u.hi, v.hi, s0.carry)
    IN IF s1.carry # 0 THEN Err("ErrOverflow") ELSE Ok(New(s0.sum, s1.sum))

\* Uint128.AddWrap
Uint128_AddWrap(u, v) ==
    LET s0 == bitsAdd64(u.lo, v.lo, 0)
        s1 == bitsAdd64(u.hi, v.hi, s0.carry)
    IN New(s0.sum, s1.sum)

\* Uint128.Add64
Uint128_Add64(u, v) ==
    LET s0 == bitsAdd64(u.lo, v, 0)
        s1 == bitsAdd64(u.hi, 0, s0.carry)
    IN IF s1.carry # 0 THEN Err("ErrOverflow") ELSE Ok(New(s0.sum, s1.sum))

\* Uint128.AddWrap64: hi := u.hi + carry wraps in uint64.
Uint128_AddWrap64(u, v) ==
    LET s0 == bitsAdd64(u.lo, v, 0)
    IN New(s0.sum, (u.hi + s0.carry) % WordMod)

\* Uint128.AddCarry
Uint128_AddCarry(u, v, carryIn) ==
    LET s0 == bitsAdd64(u.lo, v.lo, carryIn)
        s1 == bitsAdd64(u.hi, v.hi, s0.carry)
    IN [sum |-> New(s0.sum, s1.sum), carry |-> s1.carry]

\* Uint128.Sub
Uint128_Sub(u, v) ==
    LET d0 == bitsSub64(u.lo, v.lo, 0)
        d1 == bitsSub64(u.hi, v.hi, d0.borrow)
    IN IF d1.borrow # 0 THEN Err("ErrUnderflow") ELSE Ok(New(d0.diff, d1.diff))

\* Uint128.SubWrap
Uint128_SubWrap(u, v) ==
    LET d0 == bitsSub64(u.lo, v.lo, 0)
        d1 == bitsSub64(u.hi, v.hi, d0.borrow)
    IN New(d0.diff, d1.diff)

\* Uint128.Sub64
Uint128_Sub64(u, v) ==
    LET d0 == bitsSub64(u.lo, v, 0)
        d1 == bitsSub64(u.hi, 0, d0.borrow)
    IN IF d1.borrow # 0 THEN Err("ErrUnderflow") ELSE Ok(New(d0.diff, d1.diff))

\* SubWrap64 with the borrow out of the low limb dropped.
Uint128_SubWrap64_BorrowDropped(u, v) ==
    LET d0 == bitsSub64(u.lo, v, 0)
    IN New(d0.diff, u.hi)

\* Uint128.SubWrap64: hi := u.hi - borrow wraps in uint64.
Uint128_SubWrap64(u, v) ==
    LET d0 == bitsSub64(u.lo, v, 0)
    IN New(d0.diff, (u.hi - d0.borrow + WordMod) % WordMod)

\* Uint128.SubBorrow
Uint128_SubBorrow(u, v, borrowIn) ==
    LET d0 == bitsSub64(u.lo, v.lo, borrowIn)
        d1 == bitsSub64(u.hi, v.hi, d0.borrow)
    IN [diff |-> New(d0.diff, d1.diff), borrow |-> d1.borrow]

\* Uint128.IsZero
Uint128_IsZero(u) == u = New(0, 0)

\* Uint128.Cmp
Uint128_Cmp(u, v) ==
    IF u = v THEN 0
    ELSE IF u.hi < v.hi \/ (u.hi = v.hi /\ u.lo < v.lo) THEN -1
    ELSE 1

\* Uint128.Cmp64
Uint128_Cmp64(u, v) ==
    IF u.hi = 0 /\ u.lo = v THEN 0
    ELSE IF u.hi = 0 /\ u.lo < v THEN -1
    ELSE 1

\* Uint128.Lt
Uint128_Lt(u, v) == u.hi < v.hi \/ (u.hi = v.hi /\ u.lo < v.lo)

\* Uint128.Gt
Uint128_Gt(u, v) == u.hi > v.hi \/ (u.hi = v.hi /\ u.lo > v.lo)

\* Uint128.Gte
Uint128_Gte(u, v) == u.hi > v.hi \/ (u.hi = v.hi /\ u.lo >= v.lo)

\* Uint128.Or
Uint128_Or(u, v) == New(OrWord(u.lo, v.lo), OrWord(u.hi, v.hi))

\* Uint128.Bit
Uint128_Bit(u, i) ==
    IF i >= 2 * WordBits THEN 0
    ELSE IF i >= WordBits THEN ShrWord(u.hi, i - WordBits) % 2
    ELSE ShrWord(u.lo, i) % 2

\* Uint128.SetBit
Uint128_SetBit(u, i) ==
    IF i >= 2 * WordBits THEN u
    ELSE IF i >= WordBits THEN New(u.lo, OrWord(u.hi, ShlWord(1, i - WordBits)))
    ELSE New(OrWord(u.lo, ShlWord(1, i)), u.hi)

\* Uint128.Lsh
Uint128_Lsh(u, n) ==
    IF n > WordBits
    THEN New(0, ShlWord(u.lo, n - WordBits))
    ELSE New(ShlWord(u.lo, n), OrWord(ShlWord(u.hi, n), ShrWord(u.lo, WordBits - n)))

\* Uint128.Rsh
Uint128_Rsh(u, n) ==
    IF n > WordBits
    THEN New(ShrWord(u.hi, n - WordBits), 0)
    ELSE New(OrWord(ShrWord(u.lo, n), ShlWord(u.hi, WordBits - n)), ShrWord(u.hi, n))

\* Uint128.BitLen
Uint128_BitLen(u) ==
    IF u.hi # 0 THEN WordBits + bitsLen64(u.hi) ELSE bitsLen64(u.lo)

\* Uint128.Mul
Uint128_Mul(u, v) ==
    LET m  == bitsMul64(u.lo, v.lo)
        p  == bitsMul64(u.hi, v.lo)
        pp == bitsMul64(u.lo, v.hi)
        p0 == p.hi
        p1 == p.lo
        p2 == pp.hi
        p3 == pp.lo
        s0 == bitsAdd64(m.hi, p1, 0)
        s1 == bitsAdd64(s0.sum, p3, s0.carry)
    IN IF (u.hi # 0 /\ v.hi # 0) \/ p0 # 0 \/ p2 # 0 \/ s1.carry # 0
       THEN Err("ErrOverflow")
       ELSE Ok(New(m.lo, s1.sum))

\* Uint128.MulWrap: hi += u.hi*v.lo + u.lo*v.hi wraps in uint64.
Uint128_MulWrap(u, v) ==
    LET m == bitsMul64(u.lo, v.lo)
    IN New(m.lo, (m.hi + u.hi * v.lo + u.lo * v.hi) % WordMod)

\* Uint128.MulFull = (hiProduct, loProduct)
Uint128_MulFull(u, v) ==
    LET ulvl == bitsMul64(u.lo, v.lo)
        uhvl == bitsMul64(u.hi, v.lo)
        ulvh == bitsMul64(u.lo, v.hi)
        uhvh == bitsMul64(u.hi, v.hi)
        mid1 == bitsAdd64(uhvl.lo, ulvh.lo, 0)
        mid2 == bitsAdd64(uhvl.hi, ulvh.hi, mid1.carry)
        r1   == bitsAdd64(mid1.sum, ulvl.hi, 0)
        r2_part1 == bitsAdd64(mid2.sum, uhvh.lo, 0)
        r2_part2 == bitsAdd64(r2_part1.sum, r1.carry, 0)
        r2_final == bitsAdd64(r2_part2.sum, mid2.carry, 0)
        r3 == (uhvh.hi + r2_part1.carry + r2_part2.carry + r2_final.carry) % WordMod
    IN [hiProduct |-> New(r2_final.sum, r3), loProduct |-> New(ulvl.lo, r1.sum)]

\* Uint128.Mul64
Uint128_Mul64(u, v) ==
    LET m  == bitsMul64(u.lo, v)
        p  == bitsMul64(u.hi, v)
        s0 == bitsAdd64(m.hi, p.lo, 0)
    IN IF p.hi # 0 \/ s0.carry # 0 THEN Err("ErrOverflow") ELSE Ok(New(m.lo, s0.sum))

\* Uint128.MulWrap64: hi += u.hi * v wraps in uint64.
Uint128_MulWrap64(u, v) ==
    LET m == bitsMul64(u.lo, v)
    IN New(m.lo, (m.hi + u.hi * v) % WordMod)

\* The Must* wrappers: panic(err) on a non-nil error, the value otherwise.
Must(r) == IF r = Panic THEN r ELSE IF r.err # "nil" THEN [panic |-> r.err] ELSE r.val

\* Uint128.QuoRem64 = (q, r); bits.Div64 panics for v = 0.
Uint128_QuoRem64(u, v) ==
    LET one(d) == [q |-> New(d.quo, 0), r |-> d.rem]
        low(d1, d2) == [q |-> New(d2.quo, d1.quo), r |-> d2.rem]
        high(d1) == IF d1 = Panic THEN Panic ELSE low(d1, bitsDiv64(d1.rem, u.lo, v))
    IN IF u.hi < v THEN one(bitsDiv64(u.hi, u.lo, v)) ELSE high(bitsDiv64(0, u.hi, v))

\* The trial quotient left as bits.Div64 gave it (the decrement forgotten).
DecrementTrial_Skipped(tq) == tq

\* Uint128.QuoRem, "if tq != 0 { tq-- }"
DecrementTrial(tq) == IF tq # 0 THEN tq - 1 ELSE tq

\* Uint128.QuoRem = (q, r, err).  tq is the decremented trial quotient of the
\* v.hi # 0 branch and adjusted tells whether the correction step ran.
Uint128_QuoRem(u, v) ==
    LET res(q, r, err, branch, tq, adj) ==
            [q |-> q, r |-> r, err |-> err, branch |-> branch, tq |-> tq, adjusted |-> adj]
        \* "if v.hi == 0 { q, r64 = u.QuoRem64(v.lo); r = NewFromUint64(r64) }"
        small(d) ==
            IF d = Panic THEN Panic
            ELSE res(d.q, NewFromUint64(d.r), "nil", "64", 0, FALSE)
        \* "if r.Cmp(v) >= 0 { q, err = q.Add64(1); r, err = r.Sub(v) }"
        correct(tq, q1, r0, r1) ==
            IF q1.err # "nil" THEN res(q1.val, r0.val, q1.err, "128", tq, TRUE)
            ELSE IF r1.err # "nil" THEN res(q1.val, r1.val, r1.err, "128", tq, TRUE)
            ELSE res(q1.val, r1.val, "nil", "128", tq, TRUE)
        \* "vq, err := v.Mul64(tq); r, err = u.Sub(vq)"
        remainder(tq, q0, vq, r0) ==
            IF vq.err # "nil" THEN res(q0, Zero128, vq.err, "128", tq, FALSE)
            ELSE IF r0.err # "nil" THEN res(q0, r0.val, r0.err, "128", tq, FALSE)
            ELSE IF Uint128_Cmp(r0.val, v) >= 0
                 THEN correct(tq, Uint128_Add64(q0, 1), r0, Uint128_Sub(r0.val, v))
                 ELSE res(q0, r0.val, "nil", "128", tq, FALSE)
        multiplied(tq, vq) == remainder(tq, NewFromUint64(tq), vq, Uint128_Sub(u, vq.val))
        trial(tq) == multiplied(tq, Uint128_Mul64(v, tq))
        \* "tq, _ := bits.Div64(u1.hi, u1.lo, v1.hi); tq >>= 63 - n"
        divided(n, d) ==
            IF d = Panic THEN Panic
            ELSE trial(DecrementTrial(ShrWord(d.quo, WordBits - 1 - n)))
        shifted(n, u1, v1) == divided(n, bitsDiv64(u1.hi, u1.lo, v1.hi))
        large(n) == shifted(n, Uint128_Rsh(u, 1), Uint128_Lsh(v, n))
    IN IF v.hi = 0 THEN small(Uint128_QuoRem64(u, v.lo))
       ELSE large(WordBits - bitsLen64(v.hi))   \* n := bits.LeadingZeros64(v.hi)

\* Uint128.Div = (q, err)
Uint128_Div(u, v) ==
    LET result(d) == IF d = Panic THEN Panic ELSE [val |-> d.q, err |-> d.err]
    IN result(Uint128_QuoRem(u, v))

\* Uint128.Mod = (r, err)
Uint128_Mod(u, v) ==
    LET result(d) == IF d = Panic THEN Panic ELSE [val |-> d.r, err |-> d.err]
    IN result(Uint128_QuoRem(u, v))

(***************************************************************************)
(* Serialization of package uint128: encoding/binary and math/big.  A byte *)
(* has ByteBits bits and a limb is written as WordBytes bytes; a byte      *)
(* buffer is a sequence of bytes and a *big.Int is the integer it holds.   *)
(***************************************************************************)
\* Bits of a byte (8 in the source).
ByteBits == 2

\* Bytes of a limb (8 in the source).
WordBytes == (WordBits + ByteBits - 1) \div ByteBits

\* byte(v >> (8*k))
byteOf(v, k) == (v \div Pow2(ByteBits * k)) % Pow2(ByteBits)

\* binary.LittleEndian.PutUint64: the bytes of v, least significant first.
LittleEndian_PutUint64(v) == [k \in 1 .. WordBytes |-> byteOf(v, k - 1)]

\* binary.BigEndian.PutUint64: the bytes of v, most significant first.
BigEndian_PutUint64(v) == [k \in 1 .. WordBytes |-> byteOf(v, WordBytes - k)]

RECURSIVE leSum(_, _)
leSum(bs, k) ==
    IF k > WordBytes THEN 0 ELSE bs[k] * Pow2(ByteBits * (k - 1)) + leSum(bs, k + 1)

RECURSIVE beSum(_, _)
beSum(bs, k) ==
    IF k > WordBytes THEN 0 ELSE bs[k] * Pow2(ByteBits * (WordBytes - k)) + beSum(bs, k + 1)

\* binary.LittleEndian.Uint64 of the first WordBytes bytes of bs; panics on
\* a shorter slice.
LittleEndian_Uint64(bs) == IF Len(bs) < WordBytes THEN Panic ELSE leSum(bs, 1) % WordMod

\* binary.BigEndian.Uint64
BigEndian_Uint64(bs) == IF Len(bs) < WordBytes THEN Panic ELSE beSum(bs, 1) % WordMod

\* b[n:]
SliceFrom(bs, n) == SubSeq(bs, n + 1, Len(bs))

\* Uint128.PutBytes: the contents of b after the call; panics if len(b) < 16.
Uint128_PutBytes(u, bs) ==
    IF Len(bs) < 2 * WordBytes THEN Panic
    ELSE LittleEndian_PutUint64(u.lo) \o LittleEndian_PutUint64(u.hi)
           \o SliceFrom(bs, 2 * WordBytes)

\* Uint128.PutBytesBE
Uint128_PutBytesBE(u, bs) ==
    IF Len(bs) < 2 * WordBytes THEN Panic
    ELSE BigEndian_PutUint64(u.hi) \o BigEndian_PutUint64(u.lo)
           \o SliceFrom(bs, 2 * WordBytes)

\* Uint128.AppendBytes
Uint128_AppendBytes(u, bs) ==
    (bs \o LittleEndian_PutUint64(u.lo)) \o LittleEndian_PutUint64(u.hi)

\* Uint128.AppendBytesBE
Uint128_AppendBytesBE(u, bs) ==
    (bs \o BigEndian_PutUint64(u.hi)) \o BigEndian_PutUint64(u.lo)

\* NewFromBytes
NewFromBytes(bs) ==
    IF Len(bs) < 2 * WordBytes THEN Panic
    ELSE New(LittleEndian_Uint64(SubSeq(bs, 1, WordBytes)),
             LittleEndian_Uint64(SliceFrom(bs, WordBytes)))

\* NewFromBytesBE with the two limbs read in little-endian order of limbs.
NewFromBytesBE_LimbsSwapped(bs) ==
    IF Len(bs) < 2 * WordBytes THEN Panic
    ELSE New(BigEndian_Uint64(SubSeq(bs, 1, WordBytes)),
             BigEndian_Uint64(SliceFrom(bs, WordBytes)))

\* NewFromBytesBE
NewFromBytesBE(bs) ==
    IF Len(bs) < 2 * WordBytes THEN Panic
    ELSE New(BigEndian_Uint64(SliceFrom(bs, WordBytes)),
             BigEndian_Uint64(SubSeq(bs, 1, WordBytes)))

\* x ^ y of two non-negative integers (big.Int.Xor).
RECURSIVE XorNat(_, _)
XorNat(x, y) ==
    IF x = 0 THEN y
    ELSE IF y = 0 THEN x
    ELSE (IF x % 2 # y % 2 THEN 1 ELSE 0) + 2 * XorNat(x \div 2, y \div 2)

\* big.Int.BitLen of a non-negative integer.
RECURSIVE BigBitLen(_)
BigBitLen(i) == IF i = 0 THEN 0 ELSE 1 + BigBitLen(i \div 2)

\* Uint128.Big: SetUint64(u.hi), Lsh 64, Xor SetUint64(u.lo).
Uint128_Big(u) == XorNat(u.hi * WordMod, u.lo)

\* NewFromBigInt(i) = (value, err).  after is the integer the caller's *big.Int
\* holds when the call returns: i.Rsh(i, 64) stores the shifted value in i.
NewFromBigInt(i) ==
    IF i < 0 THEN [val |-> Zero128, err |-> "ErrNegativeValue", after |-> i]
    ELSE IF BigBitLen(i) > 2 * WordBits
         THEN [val |-> Zero128, err |-> "ErrValueOverflow", after |-> i]
    ELSE [val |-> New(i % WordMod, (i \div WordMod) % WordMod),
          err |-> "nil", after |-> i \div WordMod]

(***************************************************************************)
(* package uint256                                                         *)
(***************************************************************************)
\* type Uint256 struct { lo, hi uint128.Uint128 }
Uint256_New(lo, hi) == [lo |-> lo, hi |-> hi]

\* var Zero = Uint256{}
Zero256 == Uint256_New(Zero128, Zero128)

\* NewFromUint128(v)
Uint256_NewFromUint128(v) == Uint256_New(v, Zero128)

\* NewFromUint64(v)
Uint256_NewFromUint64(v) == Uint256_New(NewFromUint64(v), Zero128)

\* The number a Uint256 stands for.
Val256(u) == Val128(u.hi) * Mod128 + Val128(u.lo)

\* 2^256 in the source.
Mod256 == Mod128 * Mod128

\* return Uint256{}, err
Err256(e) == [val |-> Zero256, err |-> e]

\* Uint256.IsZero
Uint256_IsZero(u) == Uint128_IsZero(u.lo) /\ Uint128_IsZero(u.hi)

\* Uint256.Cmp128
Uint256_Cmp128(u, v) == IF ~Uint128_IsZero(u.hi) THEN 1 ELSE Uint128_Cmp(u.lo, v)

\* Uint256.Lt
Uint256_Lt(u, v) == Uint128_Lt(u.hi, v.hi) \/ (u.hi = v.hi /\ Uint128_Lt(u.lo, v.lo))

\* Gte as a strict comparison (u > v).
Uint256_Gte_Strict(u, v) ==
    Uint128_Gt(u.hi, v.hi) \/ (u.hi = v.hi /\ Uint128_Gt(u.lo, v.lo))

\* Uint256.Gte
Uint256_Gte(u, v) == Uint128_Gt(u.hi, v.hi) \/ (u.hi = v.hi /\ Uint128_Gte(u.lo, v.lo))

\* Uint256.Bit
Uint256_Bit(u, i) ==
    IF i >= 4 * WordBits THEN 0
    ELSE IF i >= 2 * WordBits THEN Uint128_Bit(u.hi, i - 2 * WordBits)
    ELSE Uint128_Bit(u.lo, i)

\* Uint256.SetBit
Uint256_SetBit(u, i) ==
    IF i >= 4 * WordBits THEN u
    ELSE IF i >= 2 * WordBits
         THEN Uint256_New(u.lo, Uint128_SetBit(u.hi, i - 2 * WordBits))
    ELSE Uint256_New(Uint128_SetBit(u.lo, i), u.hi)

\* Uint256.Sub
Uint256_Sub(u, v) ==
    LET result(d0, d1) ==
            IF d1.borrow # 0 THEN Err256("ErrUnderflow")
            ELSE Ok(Uint256_New(d0.diff, d1.diff))
        low(d0) == result(d0, Uint128_SubBorrow(u.hi, v.hi, d0.borrow))
    IN low(Uint128_SubBorrow(u.lo, v.lo, 0))

\* Uint256.Lsh
Uint256_Lsh(u, n) ==
    IF n >= 4 * WordBits THEN Zero256
    ELSE IF n >= 2 * WordBits
         THEN Uint256_New(Zero128, Uint128_Lsh(u.lo, n - 2 * WordBits))
    ELSE Uint256_New(Uint128_Lsh(u.lo, n),
                     Uint128_Or(Uint128_Lsh(u.hi, n), Uint128_Rsh(u.lo, 2 * WordBits - n)))

\* Uint256.BitLen
Uint256_BitLen(u) ==
    IF ~Uint128_IsZero(u.hi) THEN 2 * WordBits + Uint128_BitLen(u.hi)
    ELSE Uint128_BitLen(u.lo)

\* Uint256.Mul
Uint256_Mul(u, v) ==
    LET result(prod, s2) ==
            IF s2.carry # 0 THEN Err256("ErrOverflow")
            ELSE Ok(Uint256_New(prod.loProduct, s2.sum))
        summed(prod, termHiLo, s1) ==
            result(prod, Uint128_AddCarry(s1.sum, termHiLo.val, s1.carry))
        crossed(prod, termLoHi, termHiLo) ==
            IF termLoHi.err # "nil" THEN Err256("ErrOverflow")
            ELSE IF termHiLo.err # "nil" THEN Err256("ErrOverflow")
            ELSE summed(prod, termHiLo, Uint128_AddCarry(prod.hiProduct, termLoHi.val, 0))
    IN IF ~Uint128_IsZero(u.hi) /\ ~Uint128_IsZero(v.hi) THEN Err256("ErrOverflow")
       ELSE crossed(Uint128_MulFull(u.lo, v.lo), Uint128_Mul(u.lo, v.hi), Uint128_Mul(u.hi, v.lo))

\* The loop of quoRemCore from bit i down to bit 0.  lost records whether a
\* set top bit of r was ever shifted out by r.Lsh(1).
RECURSIVE quoRemLoop(_, _, _, _, _, _)
quoRemLoop(u, v, i, q, r, lost) ==
    LET compared(l, r2) ==
            IF Uint256_Gte(r2, v)
            THEN quoRemLoop(u, v, i - 1, Uint256_SetBit(q, i), Uint256_Sub(r2, v).val, l)
            ELSE quoRemLoop(u, v, i - 1, q, r2, l)
        shifted(l, r1) ==
            compared(l, IF Uint256_Bit(u, i) # 0 THEN Uint256_SetBit(r1, 0) ELSE r1)
    IN IF i < 0 THEN [q |-> q, r |-> r, lost |-> lost]
       ELSE shifted(lost \/ Uint256_Bit(r, 4 * WordBits - 1) # 0, Uint256_Lsh(r, 1))

\* quoRemCore = (q, r)
quoRemCore(u, v) ==
    IF Uint256_Lt(u, v) THEN [q |-> Zero256, r |-> u, lost |-> FALSE]
    ELSE quoRemLoop(u, v, 4 * WordBits - 1, Zero256, Zero256, FALSE)

\* Uint256.QuoRem = (q, r, err)
Uint256_QuoRem(u, v) ==
    LET result(c) == [q |-> c.q, r |-> c.r, err |-> "nil", lost |-> c.lost]
    IN IF Uint256_IsZero(v)
       THEN [q |-> Zero256, r |-> Zero256, err |-> "ErrDivideByZero", lost |-> FALSE]
       ELSE result(quoRemCore(u, v))

(***************************************************************************)
(* Calls of package uint128.  The initial state holds the receiver u (in   *)
(* a) and the argument v (in b) of a call that has not been made yet; an   *)
(* action is one call and records what it returns.  The 64-bit variants    *)
(* take the low limb of b as their uint64 argument.                        *)
(***************************************************************************)
InitCall == op = "init" /\ a \in Uint128 /\ b \in Uint128 /\ out = None

Call(name, result) ==
    /\ op = "init"
    /\ op' = name
    /\ out' = result
    /\ UNCHANGED <<a, b>>

NextArith ==
    \/ Call("Add", Uint128_Add(a, b))
    \/ Call("Add64", Uint128_Add64(a, b.lo))
    \/ Call("Sub", Uint128_Sub(a, b))
    \/ Call("Sub64", Uint128_Sub64(a, b.lo))
    \/ Call("AddWrap", Uint128_AddWrap(a, b))
    \/ Call("SubWrap", Uint128_SubWrap(a, b))
    \/ Call("MulWrap", Uint128_MulWrap(a, b))
    \/ Call("AddWrap64", Uint128_AddWrap64(a, b.lo))
    \/ Call("SubWrap64", Uint128_SubWrap64(a, b.lo))
    \/ Call("MulWrap64", Uint128_MulWrap64(a, b.lo))
    \/ Call("Mul", Uint128_Mul(a, b))
    \/ Call("Mul64", Uint128_Mul64(a, b.lo))
    \/ Call("MustMul", Must(Uint128_Mul(a, b)))
    \/ Call("MustMul64", Must(Uint128_Mul64(a, b.lo)))
    \/ Call("MulFull", Uint128_MulFull(a, b))

SpecArith == InitCall /\ [][NextArith]_vars

NextQuoRem ==
    \/ Call("QuoRem", Uint128_QuoRem(a, b))
    \/ Call("Div", Uint128_Div(a, b))
    \/ Call("Mod", Uint128_Mod(a, b))
    \/ Call("MustDiv", Must(Uint128_Div(a, b)))
    \/ Call("MustMod", Must(Uint128_Mod(a, b)))

SpecQuoRem == InitCall /\ [][NextQuoRem]_vars

(***************************************************************************)
(* The reference: unbounded arithmetic on the numbers the values stand for *)
(***************************************************************************)
\* The Uint128 that stands for the number n < 2^128.
FromNat128(n) == New(n % WordMod, n \div WordMod)

\* C1: MulFull returns the true 256-bit product,
\* hiProduct * 2^128 + loProduct = u * v, for every pair of inputs.
C1_MulFullExact ==
    op = "MulFull" =>
        Val128(out.hiProduct) * Mod128 + Val128(out.loProduct) = Val128(a) * Val128(b)

\* C2: Mul and Mul64 return ErrOverflow exactly when the unbounded product
\* is >= 2^128 and the exact product with a nil error otherwise; MustMul and
\* MustMul64 panic in exactly those cases.
C2_MulChecked ==
    /\ op = "Mul" =>
         IF Val128(a) * Val128(b) >= Mod128
         THEN out.err = "ErrOverflow"
         ELSE out = Ok(FromNat128(Val128(a) * Val128(b)))
    /\ op = "Mul64" =>
         IF Val128(a) * b.lo >= Mod128
         THEN out.err = "ErrOverflow"
         ELSE out = Ok(FromNat128(Val128(a) * b.lo))
    /\ op = "MustMul" =>
         IF Val128(a) * Val128(b) >= Mod128
         THEN out = [panic |-> "ErrOverflow"]
         ELSE out = FromNat128(Val128(a) * Val128(b))
    /\ op = "MustMul64" =>
         IF Val128(a) * b.lo >= Mod128
         THEN out = [panic |-> "ErrOverflow"]
         ELSE out = FromNat128(Val128(a) * b.lo)

\* C3: Add and Add64 return ErrOverflow exactly when u + v >= 2^128, Sub and
\* Sub64 return ErrUnderflow exactly when u < v, and otherwise they return the
\* exact sum or difference with a nil error.
C3_AddSubChecked ==
    /\ op = "Add" =>
         IF Val128(a) + Val128(b) >= Mod128
         THEN out.err = "ErrOverflow"
         ELSE out = Ok(FromNat128(Val128(a) + Val128(b)))
    /\ op = "Add64" =>
         IF Val128(a) + b.lo >= Mod128
         THEN out.err = "ErrOverflow"
         ELSE out = Ok(FromNat128(Val128(a) + b.lo))
    /\ op = "Sub" =>
         IF Val128(a) < Val128(b)
         THEN out.err = "ErrUnderflow"
         ELSE out = Ok(FromNat128(Val128(a) - Val128(b)))
    /\ op = "Sub64" =>
         IF Val128(a) < b.lo
         THEN out.err = "ErrUnderflow"
         ELSE out = Ok(FromNat128(Val128(a) - b.lo))

\* Max.Add(New(10,10)) overflows, New(10,10).Sub(Max) underflows.
C3_Witness ==
    \/ op = "Add" /\ a = Max128 /\ b = New(10, 10) /\ out.err = "ErrOverflow"
    \/ op = "Sub" /\ a = New(10, 10) /\ b = Max128 /\ out.err = "ErrUnderflow"

\* C4: the wrapping operations never fail and return the unbounded result
\* reduced modulo 2^128; a negative difference wraps to 2^128 + (u - v).
C4_WrapModular ==
    /\ op \in {"AddWrap", "SubWrap", "MulWrap", "AddWrap64", "SubWrap64", "MulWrap64"}
         => out \in Uint128
    /\ op = "AddWrap" => out = FromNat128((Val128(a) + Val128(b)) % Mod128)
    /\ op = "SubWrap" =>
         out = FromNat128(IF Val128(a) >= Val128(b)
                          THEN Val128(a) - Val128(b)
                          ELSE Mod128 + (Val128(a) - Val128(b)))
    /\ op = "MulWrap" => out = FromNat128((Val128(a) * Val128(b)) % Mod128)
    /\ op = "AddWrap64" => out = FromNat128((Val128(a) + b.lo) % Mod128)
    /\ op = "SubWrap64" =>
         out = FromNat128(IF Val128(a) >= b.lo
                          THEN Val128(a) - b.lo
                          ELSE Mod128 + (Val128(a) - b.lo))
    /\ op = "MulWrap64" => out = FromNat128((Val128(a) * b.lo) % Mod128)

\* Max.MulWrap(Max) = 1 and Zero.SubWrap(1) = Max: results that wrapped.
C4_Witness ==
    \/ op = "MulWrap" /\ a = Max128 /\ b = Max128 /\ out = New(1, 0)
    \/ op = "SubWrap" /\ a = Zero128 /\ b = New(1, 0) /\ out = Max128

\* C5: for v # 0, QuoRem returns a nil error with q = floor(u / v) and
\* r = u - q*v < v; in the branch v.hi # 0 the decremented trial quotient is
\* never above the true quotient and at most one below it.
C5_QuoRemExact ==
    (op = "QuoRem" /\ b # Zero128) =>
        /\ out # Panic
        /\ out.err = "nil"
        /\ out.q = FromNat128(Val128(a) \div Val128(b))
        /\ out.r = FromNat128(Val128(a) % Val128(b))
        /\ Val128(out.r) < Val128(b)
        /\ out.branch = "128" =>
             /\ out.tq <= Val128(a) \div Val128(b)
             /\ Val128(a) \div Val128(b) <= out.tq + 1
             /\ out.adjusted = (out.tq # Val128(a) \div Val128(b))

\* A division in the v.hi # 0 branch whose trial quotient needed the correction.
C5_Witness ==
    op = "QuoRem" /\ b.hi # 0 /\ out.branch = "128" /\ out.adjusted /\ out.err = "nil"
       /\ Val128(out.q) >= 2

\* C6: division by zero is reported as the error value ErrDivideByZero by
\* QuoRem, Div and Mod, and MustDiv and MustMod panic with that error.
C6_DivideByZeroSignal ==
    b = Zero128 =>
        /\ op \in {"QuoRem", "Div", "Mod"} => (out # Panic /\ out.err = "ErrDivideByZero")
        /\ op \in {"MustDiv", "MustMod"} => out = [panic |-> "ErrDivideByZero"]

(***************************************************************************)
(* Calls of package uint256.  The operands are built from sampled limbs:   *)
(* the small values, the top bit alone and the largest one.                *)
(***************************************************************************)
InitCall256 ==
    LET LimbSamples == {0, 1, MaxUint64 \div 2 + 1, MaxUint64}
        Sample128 == [lo : LimbSamples, hi : LimbSamples]
        Sample256 == [lo : Sample128, hi : Sample128]
    IN op = "init" /\ a \in Sample256 /\ b \in Sample256 /\ out = None

NextUint256 ==
    \/ Call("QuoRem256", Uint256_QuoRem(a, b))
    \/ Call("Mul256", Uint256_Mul(a, b))

SpecUint256 == InitCall256 /\ [][NextUint256]_vars

\* The Uint256 that stands for the number n < 2^256.
FromNat256(n) == Uint256_New(FromNat128(n % Mod128), FromNat128(n \div Mod128))

C8_Mul256Checked ==
    op = "Mul256" =>
        IF Val256(b) # 0 /\ Val256(a) > (Mod256 - 1) \div Val256(b)
        THEN out.err = "ErrOverflow"
        ELSE out = Ok(FromNat256(Val256(a) * Val256(b)))

(***************************************************************************)
(* Serialization calls.  PutBytes writes a into a buffer that holds the    *)
(* encoding of b; AppendBytes appends a and then b to an empty buffer.     *)
(***************************************************************************)
NextBytes ==
    \/ LET buf == Uint128_PutBytes(a, Uint128_AppendBytes(b, <<>>))
       IN Call("PutBytes", [buf |-> buf, back |-> NewFromBytes(buf)])
    \/ LET buf == Uint128_PutBytesBE(a, Uint128_AppendBytesBE(b, <<>>))
       IN Call("PutBytesBE", [buf |-> buf, back |-> NewFromBytesBE(buf)])
    \/ LET buf == Uint128_AppendBytes(b, Uint128_AppendBytes(a, <<>>))
       IN Call("AppendBytes",
               [buf |-> buf,
                first |-> NewFromBytes(SubSeq(buf, 1, 2 * WordBytes)),
                second |-> NewFromBytes(SliceFrom(buf, 2 * WordBytes))])
    \/ LET buf == Uint128_AppendBytesBE(b, Uint128_AppendBytesBE(a, <<>>))
       IN Call("AppendBytesBE",
               [buf |-> buf,
                first |-> NewFromBytesBE(SubSeq(buf, 1, 2 * WordBytes)),
                second |-> NewFromBytesBE(SliceFrom(buf, 2 * WordBytes))])
    \/ Call("Big", [big |-> Uint128_Big(a), back |-> NewFromBigInt(Uint128_Big(a))])

SpecBytes == InitCall /\ [][NextBytes]_vars

\* C9: serialization round-trips: NewFromBytes(PutBytes(x)) = x and
\* NewFromBytesBE(PutBytesBE(x)) = x; AppendBytes and AppendBytesBE append
\* exactly 16 bytes, each 16-byte slice decoding to the value appended; and
\* NewFromBigInt(x.Big()) = x with a nil error.
C9_RoundTrips ==
    /\ op \in {"PutBytes", "PutBytesBE"} => out.back = a
    /\ op \in {"AppendBytes", "AppendBytesBE"} =>
         /\ Len(out.buf) = 2 * (2 * WordBytes)
         /\ out.first = a
         /\ out.second = b
    /\ op = "Big" =>
         /\ out.big = Val128(a)
         /\ out.back.val = a
         /\ out.back.err = "nil"

\* A value with different limbs, so that limb order and byte order matter.
C9_Witness ==
    /\ op \in {"PutBytesBE", "AppendBytesBE", "Big"}
    /\ a.lo # a.hi
    /\ a.hi # 0
    /\ byteOf(a.lo, 0) # byteOf(a.lo, 1)

(***************************************************************************)
(* package decimal.  The source ties its precision to the limb width:      *)
(* 10^19 is the largest power of ten below 2^64 (the rounding operations   *)
(* take pow10[k].Low() for k <= 19) and the table pow10 ends at 10^38, the *)
(* largest below 2^128.  The model derives maxPrec from WordBits the same  *)
(* way, and writes 2 * maxPrec and 4 * maxPrec for the source's 38 and 76. *)
(***************************************************************************)
RECURSIVE Pow10(_)
Pow10(n) == IF n <= 0 THEN 1 ELSE 10 * Pow10(n - 1)

\* maxPrec uint8 = 19
maxPrec ==
    CHOOSE p \in 0 .. WordBits : Pow10(p) <= MaxUint64 /\ Pow10(p + 1) > MaxUint64

\* defaultPrec uint8 = 19
defaultPrec == maxPrec

\* var pow10 = [39]uint128.Uint128{10^0, ..., 10^38}
pow10 == [k \in 0 .. 2 * maxPrec |-> FromNat128(Pow10(k))]

\* var pow10Big = [20]*big.Int{10^0, ..., 10^19}
pow10Big == [k \in 0 .. maxPrec |-> Pow10(k)]

\* Arithmetic in uint8.
Uint8(x) == x % 256

\* big.Int.Exp(b, e, nil) for e >= 0.
RECURSIVE BigExp(_, _)
BigExp(x, e) == IF e <= 0 \/ x = 1 THEN 1 ELSE x * BigExp(x, e - 1)

(***************************************************************************)
(* type bint: the coefficient, a Uint128 or, once a value has left the     *)
(* 128-bit range, a *big.Int.  decimal.go reads its fields u128 and bigInt *)
(* and calls the methods below; the file that defines them is not part of  *)
(* the source tree, so they follow the description of the Coefficient:     *)
(* the Uint128 operation when both operands are exact and it reports no    *)
(* overflow, the arbitrary-precision operation otherwise, its result kept  *)
(* as a *big.Int.                                                          *)
(***************************************************************************)
\* bigInt == nil
NilBig == -1

bintFromU128(u) == [u128 |-> u, bigInt |-> NilBig]

bintFromU64(v) == bintFromU128(NewFromUint64(v))

bintFromBigInt(n) == [u128 |-> Zero128, bigInt |-> n]

\* bint.overflow: the coefficient is held as a *big.Int.
overflow(c) == c.bigInt # NilBig

\* bint.GetBig
GetBig(c) == IF overflow(c) THEN c.bigInt ELSE Uint128_Big(c.u128)

\* bint.IsZero
bint_IsZero(c) == IF overflow(c) THEN c.bigInt = 0 ELSE Uint128_IsZero(c.u128)

\* bint.Cmp
bint_Cmp(u, v) ==
    IF ~overflow(u) /\ ~overflow(v) THEN Uint128_Cmp(u.u128, v.u128)
    ELSE IF GetBig(u) < GetBig(v) THEN -1
    ELSE IF GetBig(u) > GetBig(v) THEN 1 ELSE 0

\* bint.Add
bint_Add(u, v) ==
    LET result(s) ==
            IF ~overflow(u) /\ ~overflow(v) /\ s.err = "nil" THEN bintFromU128(s.val)
            ELSE bintFromBigInt(GetBig(u) + GetBig(v))
    IN result(Uint128_Add(u.u128, v.u128))

\* bint.Sub = (difference, err); the callers pass the larger operand first.
bint_Sub(u, v) ==
    LET result(s) ==
            IF ~overflow(u) /\ ~overflow(v) /\ s.err = "nil"
            THEN [val |-> bintFromU128(s.val), err |-> "nil"]
            ELSE IF GetBig(u) < GetBig(v)
                 THEN [val |-> bintFromU128(Zero128), err |-> "errOverflow"]
                 ELSE [val |-> bintFromBigInt(GetBig(u) - GetBig(v)), err |-> "nil"]
    IN result(Uint128_Sub(u.u128, v.u128))

\* bint.Mul
bint_Mul(u, v) ==
    LET result(m) ==
            IF ~overflow(u) /\ ~overflow(v) /\ m.err = "nil" THEN bintFromU128(m.val)
            ELSE bintFromBigInt(GetBig(u) * GetBig(v))
    IN result(Uint128_Mul(u.u128, v.u128))

\* uint256.Uint256.Pow(e) = (u^e, err): the power in the 256-bit engine,
\* ErrOverflow when it leaves the 256-bit range.  Its file is not part of the
\* source tree either.
RECURSIVE Uint256_Pow(_, _)
Uint256_Pow(u, e) ==
    IF e = 0 THEN Ok(Uint256_NewFromUint64(1))
    ELSE LET r == Uint256_Pow(u, e - 1)
         IN IF r.err # "nil" THEN r
            ELSE IF Val256(u) # 0 /\ Val256(r.val) > (Mod256 - 1) \div Val256(u)
                 THEN Err256("ErrOverflow")
                 ELSE Ok(FromNat256(Val256(r.val) * Val256(u)))

(***************************************************************************)
(* type Decimal struct { coef bint; neg bool; prec uint8 }                 *)
(***************************************************************************)
Dec(neg, coef, prec) == [neg |-> neg, coef |-> coef, prec |-> prec]

\* Zero = Decimal{}
Zero == Dec(FALSE, bintFromU128(Zero128), 0)

\* A Decimal built from its parts as they are, a zero coefficient included.
newDecimal_ZeroKept(neg, coef, prec) == Dec(neg, coef, prec)

\* newDecimal
newDecimal(neg, coef, prec) ==
    IF bint_IsZero(coef) THEN Zero ELSE Dec(neg, coef, prec)

\* return Decimal{}, err
DErr(e) == [val |-> Zero, err |-> e]

\* NewFromHiLo = (Decimal, err)
Decimal_NewFromHiLo(neg, hi, lo, prec) ==
    IF prec > defaultPrec THEN DErr("ErrPrecOutOfRange")
    ELSE Ok(newDecimal(neg, bintFromU128(New(lo, hi)), prec))

\* A NewFromUint64 that accepts every precision.
Decimal_NewFromUint64_AnyPrec(coef, prec) == Ok(newDecimal(FALSE, bintFromU64(coef), prec))

\* NewFromUint64 = (Decimal, err)
Decimal_NewFromUint64(coef, prec) ==
    IF prec > defaultPrec THEN DErr("ErrPrecOutOfRange")
    ELSE Ok(newDecimal(FALSE, bintFromU64(coef), prec))

\* NewFromInt64 = (Decimal, err).  coef = -coef is computed in int64 and
\* uint64(coef) reinterprets the bits.
Decimal_NewFromInt64(coef, prec) ==
    LET neg   == coef < 0
        coef1 == IF neg THEN ((-coef + WordMod \div 2) % WordMod) - WordMod \div 2
                 ELSE coef
    IN IF prec > defaultPrec THEN DErr("ErrPrecOutOfRange")
       ELSE Ok(newDecimal(neg, bintFromU64(coef1 % WordMod), prec))

\* One = MustFromInt64(1, 0)
One == Decimal_NewFromInt64(1, 0).val

\* The operands of Add and Sub brought to the larger precision.
alignPrec(d, e) ==
    LET scale(coef, diff) ==
            IF diff > 0 THEN bint_Mul(coef, bintFromU128(pow10[diff])) ELSE coef
    IN [prec  |-> IF d.prec >= e.prec THEN d.prec ELSE e.prec,
        dcoef |-> scale(d.coef, e.prec - d.prec),
        ecoef |-> scale(e.coef, d.prec - e.prec)]

\* The tail Add and Sub share: the sum of the magnitudes when the signs of the
\* terms agree, the larger magnitude minus the smaller one otherwise, with the
\* sign neg when d's magnitude is the larger and other when it is not.
addMagnitudes(same, neg, other, al) ==
    LET difference(dcoef, ecoef, cmp) ==
            IF cmp = 1
            THEN newDecimal(neg, bint_Sub(dcoef, ecoef).val, al.prec)
            ELSE newDecimal(other, bint_Sub(ecoef, dcoef).val, al.prec)
    IN IF same THEN newDecimal(neg, bint_Add(al.dcoef, al.ecoef), al.prec)
       ELSE difference(al.dcoef, al.ecoef, bint_Cmp(al.dcoef, al.ecoef))

\* Decimal.Add
Decimal_Add(d, e) == addMagnitudes(d.neg = e.neg, d.neg, e.neg, alignPrec(d, e))

\* Decimal.Sub
Decimal_Sub(d, e) == addMagnitudes(d.neg # e.neg, d.neg, ~d.neg, alignPrec(d, e))

\* The 256-bit number of a full product: "uint256.New(lo, hi)".
wide(prod) == Uint256_New(prod.loProduct, prod.hiProduct)

\* The tail the Uint128 paths share: the 256-bit quotient must fit 128 bits.
narrow(neg, qr) ==
    IF qr.err # "nil" THEN DErr(qr.err)
    ELSE IF ~Uint128_IsZero(qr.q.hi) THEN DErr("errOverflow")
    ELSE Ok(newDecimal(neg, bintFromU128(qr.q.lo), defaultPrec))

\* A tryMulU128 that takes the low half of the product for the coefficient.
tryMulU128_LowHalf(d, e, neg, prec) ==
    IF overflow(d.coef) \/ overflow(e.coef) THEN DErr("errOverflow")
    ELSE Ok(newDecimal(neg, bintFromU128(Uint128_MulFull(d.coef.u128, e.coef.u128).loProduct),
                       IF prec <= defaultPrec THEN prec ELSE defaultPrec))

\* tryMulU128 = (Decimal, err)
tryMulU128(d, e, neg, prec) ==
    LET product(prod) ==
            IF prec <= defaultPrec
            THEN IF ~Uint128_IsZero(prod.hiProduct) THEN DErr("errOverflow")
                 ELSE Ok(newDecimal(neg, bintFromU128(prod.loProduct), prec))
            ELSE narrow(neg, Uint256_QuoRem(wide(prod),
                                            Uint256_NewFromUint128(pow10[prec - defaultPrec])))
    IN IF overflow(d.coef) \/ overflow(e.coef) THEN DErr("errOverflow")
       ELSE product(Uint128_MulFull(d.coef.u128, e.coef.u128))

\* Decimal.Mul
Decimal_Mul(d, e) ==
    LET prec == Uint8(d.prec + e.prec)
        neg  == d.neg # e.neg
        dBig == GetBig(d.coef) * GetBig(e.coef)
        result(v) ==
            IF v.err = "nil" THEN v.val
            ELSE IF prec <= defaultPrec THEN newDecimal(neg, bintFromBigInt(dBig), prec)
            ELSE newDecimal(neg,
                            bintFromBigInt(dBig \div Uint128_Big(pow10[prec - defaultPrec])),
                            defaultPrec)
    IN result(tryMulU128(d, e, neg, prec))

\* A scaling exponent of Div that leaves out the scale of the divisor.
divFactor_DividendOnly(d, e) == Uint8(defaultPrec - d.prec)

\* factor := defaultPrec - (d.prec - e.prec), in uint8
divFactor(d, e) == Uint8(defaultPrec - Uint8(d.prec - e.prec))

\* tryDivU128 = (Decimal, err)
tryDivU128(d, e, neg) ==
    IF overflow(d.coef) \/ overflow(e.coef) THEN DErr("errOverflow")
    ELSE IF Uint128_IsZero(e.coef.u128) THEN DErr("ErrDivideByZero")
    ELSE narrow(neg, Uint256_QuoRem(wide(Uint128_MulFull(d.coef.u128, pow10[divFactor(d, e)])),
                                    Uint256_NewFromUint128(e.coef.u128)))

\* Decimal.Div = (Decimal, err)
Decimal_Div(d, e) ==
    LET neg  == d.neg # e.neg
        dBig == (GetBig(d.coef) * Uint128_Big(pow10[divFactor(d, e)])) \div GetBig(e.coef)
        result(q) ==
            IF q.err = "nil" THEN q
            ELSE Ok(newDecimal(neg, bintFromBigInt(dBig), defaultPrec))
    IN IF bint_IsZero(e.coef) THEN DErr("ErrDivideByZero")
       ELSE result(tryDivU128(d, e, neg))

\* Decimal.Mul64
Decimal_Mul64(d, v) ==
    LET product(coef) ==
            IF ~overflow(d.coef) /\ coef.err = "nil"
            THEN newDecimal(d.neg, bintFromU128(coef.val), d.prec)
            ELSE newDecimal(d.neg, bintFromBigInt(GetBig(d.coef) * v), d.prec)
    IN IF v = 0 THEN Zero
       ELSE IF v = 1 THEN d
       ELSE product(Uint128_Mul64(d.coef.u128, v))

\* Decimal.Div64 = (Decimal, err)
Decimal_Div64(d, v) ==
    LET scaleFactor == Uint8(defaultPrec - d.prec)
        quotient(qr) ==
            IF ~overflow(d.coef) /\ qr.err = "nil" /\ Uint128_IsZero(qr.q.hi)
            THEN Ok(newDecimal(d.neg, bintFromU128(qr.q.lo), defaultPrec))
            ELSE Ok(newDecimal(d.neg,
                               bintFromBigInt((GetBig(d.coef) * Uint128_Big(pow10[scaleFactor]))
                                              \div v),
                               defaultPrec))
    IN IF v = 0 THEN DErr("ErrDivideByZero")
       ELSE IF v = 1 THEN Ok(d)
       ELSE quotient(Uint256_QuoRem(wide(Uint128_MulFull(d.coef.u128, pow10[scaleFactor])),
                                    Uint256_NewFromUint64(v)))

\* return Decimal{}, Decimal{}, err
QRErr(e) == [q |-> Zero, r |-> Zero, err |-> e]

\* tryQuoRemU128 = (q, r, err)
tryQuoRemU128(d, e) ==
    LET factor == IF d.prec >= e.prec THEN d.prec ELSE e.prec
        result(qr) ==
            IF qr.err # "nil" THEN QRErr(qr.err)
            ELSE IF ~Uint128_IsZero(qr.q.hi) \/ ~Uint128_IsZero(qr.r.hi)
                 THEN QRErr("errOverflow")
            ELSE [q |-> newDecimal(d.neg # e.neg, bintFromU128(qr.q.lo), 0),
                  r |-> newDecimal(d.neg, bintFromU128(qr.r.lo), factor),
                  err |-> "nil"]
        divide(dividend256, divisor) ==
            IF divisor.err # "nil" THEN QRErr(divisor.err)
            ELSE IF Uint128_IsZero(divisor.val) THEN QRErr("ErrDivideByZero")
            ELSE result(Uint256_QuoRem(dividend256, Uint256_NewFromUint128(divisor.val)))
    IN IF overflow(d.coef) \/ overflow(e.coef) THEN QRErr("errOverflow")
       ELSE divide(IF d.prec = e.prec THEN Uint256_NewFromUint128(d.coef.u128)
                   ELSE wide(Uint128_MulFull(d.coef.u128, pow10[factor - d.prec])),
                   IF d.prec = e.prec THEN Ok(e.coef.u128)
                   ELSE Uint128_Mul(e.coef.u128, pow10[factor - e.prec]))

\* Decimal.QuoRem = (q, r, err)
Decimal_QuoRem(d, e) ==
    LET factor == IF d.prec >= e.prec THEN d.prec ELSE e.prec
        dBig   == GetBig(d.coef) * Uint128_Big(pow10[factor - d.prec])
        eBig   == GetBig(e.coef) * Uint128_Big(pow10[factor - e.prec])
        result(t) ==
            IF t.err = "nil" THEN t
            ELSE [q |-> newDecimal(d.neg # e.neg, bintFromBigInt(dBig \div eBig), 0),
                  r |-> newDecimal(d.neg, bintFromBigInt(dBig % eBig), factor),
                  err |-> "nil"]
    IN IF bint_IsZero(e.coef) THEN QRErr("ErrDivideByZero")
       ELSE result(tryQuoRemU128(d, e))

\* tryCmpU128 comparing the low 128 bits of the scaled coefficient only.
tryCmpU128_Narrow(d, e) ==
    IF overflow(d.coef) \/ overflow(e.coef) THEN [val |-> 0, err |-> "errOverflow"]
    ELSE IF d.prec = e.prec THEN Ok(Uint128_Cmp(d.coef.u128, e.coef.u128))
    ELSE IF d.prec < e.prec
         THEN Ok(Uint128_Cmp(Uint128_MulFull(d.coef.u128, pow10[e.prec - d.prec]).loProduct,
                             e.coef.u128))
         ELSE Ok(-Uint128_Cmp(Uint128_MulFull(e.coef.u128, pow10[d.prec - e.prec]).loProduct,
                              d.coef.u128))

\* tryCmpU128 = (int, err)
tryCmpU128(d, e) ==
    IF overflow(d.coef) \/ overflow(e.coef) THEN [val |-> 0, err |-> "errOverflow"]
    ELSE IF d.prec = e.prec THEN Ok(Uint128_Cmp(d.coef.u128, e.coef.u128))
    ELSE IF d.prec < e.prec
         THEN Ok(Uint256_Cmp128(wide(Uint128_MulFull(d.coef.u128, pow10[e.prec - d.prec])),
                                e.coef.u128))
         ELSE Ok(-Uint256_Cmp128(wide(Uint128_MulFull(e.coef.u128, pow10[d.prec - e.prec])),
                                 d.coef.u128))

\* Decimal.cmpDecSameSign
cmpDecSameSign(d, e) ==
    LET dBig == IF d.prec < e.prec
                THEN GetBig(d.coef) * Uint128_Big(pow10[e.prec - d.prec])
                ELSE GetBig(d.coef)
        eBig == IF d.prec > e.prec
                THEN GetBig(e.coef) * Uint128_Big(pow10[d.prec - e.prec])
                ELSE GetBig(e.coef)
        result(t) ==
            IF t.err = "nil" THEN t.val
            ELSE IF dBig < eBig THEN -1 ELSE IF dBig > eBig THEN 1 ELSE 0
    IN result(tryCmpU128(d, e))

\* Decimal.Cmp
Decimal_Cmp(d, e) ==
    LET signed(c) == IF d.neg THEN -c ELSE c
    IN IF d.neg /\ ~e.neg THEN -1
       ELSE IF ~d.neg /\ e.neg THEN 1
       ELSE signed(cmpDecSameSign(d, e))

\* Decimal.Neg
Decimal_Neg(d) == newDecimal(~d.neg, d.coef, d.prec)

\* Decimal.Abs
Decimal_Abs(d) == newDecimal(FALSE, d.coef, d.prec)

\* big.Int.QuoRem of the coefficient by the Uint128 factor.
bigQuoRem(d, factor) ==
    [q |-> GetBig(d.coef) \div Uint128_Big(factor),
     r |-> GetBig(d.coef) % Uint128_Big(factor)]

\* The tail the rounding operations share: q or q + 1 by Add64 on the Uint128
\* path, the *big.Int quotient (plus one when upBig) when the coefficient is a
\* *big.Int or Add64 overflows.
roundResult(d, prec, q, up, factor, upBig) ==
    LET result(q1) ==
            IF ~overflow(d.coef) /\ q1.err = "nil"
            THEN newDecimal(d.neg, bintFromU128(q1.val), prec)
            ELSE newDecimal(d.neg,
                            bintFromBigInt(bigQuoRem(d, factor).q + (IF upBig THEN 1 ELSE 0)),
                            prec)
    IN result(IF up THEN Uint128_Add64(q, 1) ELSE Ok(q))

\* A RoundBank that rounds every tie up.
Decimal_RoundBank_TiesUp(d, prec) ==
    IF prec >= d.prec THEN d
    ELSE newDecimal(d.neg,
                    bintFromBigInt((GetBig(d.coef) + Pow10(d.prec - prec) \div 2)
                                   \div Pow10(d.prec - prec)),
                    prec)

\* A RoundHAZ that rounds every tie down.
Decimal_RoundHAZ_TiesDown(d, prec) ==
    IF prec >= d.prec THEN d
    ELSE newDecimal(d.neg,
                    bintFromBigInt((GetBig(d.coef) + Pow10(d.prec - prec) \div 2 - 1)
                                   \div Pow10(d.prec - prec)),
                    prec)

\* Decimal.RoundBank
Decimal_RoundBank(d, prec) ==
    LET factor == pow10[d.prec - prec]
        lo == factor.lo \div 2
        round(qr, b2) ==
            roundResult(d, prec, qr.q,
                        lo < qr.r \/ (lo = qr.r /\ qr.q.lo % 2 = 1),
                        factor,
                        b2.r > lo \/ (b2.r = lo /\ b2.q % 2 = 1))
    IN IF prec >= d.prec THEN d
       ELSE round(Uint128_QuoRem64(d.coef.u128, factor.lo), bigQuoRem(d, factor))

\* Decimal.RoundAwayFromZero
Decimal_RoundAwayFromZero(d, prec) ==
    LET factor == pow10[d.prec - prec]
        round(qr) ==
            roundResult(d, prec, qr.q, qr.r # 0, factor, bigQuoRem(d, factor).r # 0)
    IN IF prec >= d.prec THEN d
       ELSE round(Uint128_QuoRem64(d.coef.u128, factor.lo))

\* Decimal.RoundHAZ
Decimal_RoundHAZ(d, prec) ==
    LET factor == pow10[d.prec - prec]
        round(half, qr) ==
            roundResult(d, prec, qr.q, Uint128_Cmp64(half, qr.r) <= 0,
                        factor, bigQuoRem(d, factor).r >= Uint128_Big(half))
    IN IF prec >= d.prec THEN d
       ELSE round(Uint128_QuoRem64(factor, 2).q, Uint128_QuoRem64(d.coef.u128, factor.lo))

\* Decimal.RoundHTZ
Decimal_RoundHTZ(d, prec) ==
    LET factor == pow10[d.prec - prec]
        round(half, qr) ==
            roundResult(d, prec, qr.q, Uint128_Cmp64(half, qr.r) < 0,
                        factor, bigQuoRem(d, factor).r > Uint128_Big(half))
    IN IF prec >= d.prec THEN d
       ELSE round(Uint128_QuoRem64(factor, 2).q, Uint128_QuoRem64(d.coef.u128, factor.lo))

\* A Floor that cuts the fraction off.
Decimal_Floor_Truncating(d) ==
    newDecimal(d.neg, bintFromBigInt(GetBig(d.coef) \div Pow10(d.prec)), 0)

\* Decimal.Floor
Decimal_Floor(d) ==
    LET round(qr) ==
            roundResult(d, 0, qr.q, d.neg /\ qr.r # 0, pow10[d.prec],
                        d.neg /\ bigQuoRem(d, pow10[d.prec]).r # 0)
    IN IF d.prec = 0 THEN d
       ELSE round(Uint128_QuoRem64(d.coef.u128, pow10[d.prec].lo))

\* Decimal.Ceil
Decimal_Ceil(d) ==
    LET round(qr) ==
            roundResult(d, 0, qr.q, ~d.neg /\ qr.r # 0, pow10[d.prec],
                        ~d.neg /\ bigQuoRem(d, pow10[d.prec]).r # 0)
    IN IF d.prec = 0 THEN d
       ELSE round(Uint128_QuoRem64(d.coef.u128, pow10[d.prec].lo))

\* Decimal.Trunc
Decimal_Trunc(d, prec) ==
    IF prec >= d.prec THEN d
    ELSE IF ~overflow(d.coef)
         THEN newDecimal(d.neg,
                         bintFromU128(Uint128_QuoRem64(d.coef.u128,
                                                       pow10[d.prec - prec].lo).q),
                         prec)
         ELSE newDecimal(d.neg, bintFromBigInt(bigQuoRem(d, pow10[d.prec - prec]).q), prec)

\* Decimal.Int64 = (int64, err); math.MaxInt64 is the largest signed word.
Decimal_Int64(d) ==
    LET part(d1) ==
            IF overflow(d1.coef) THEN [val |-> 0, err |-> "ErrIntPartOverflow"]
            ELSE IF Uint128_Cmp64(d1.coef.u128, WordMod \div 2 - 1) > 0
                 THEN [val |-> 0, err |-> "ErrIntPartOverflow"]
            ELSE Ok(IF d1.neg THEN -d1.coef.u128.lo ELSE d1.coef.u128.lo)
    IN part(Decimal_Trunc(d, 0))

(***************************************************************************)
(* Trailing zeros.  The source tests the chunk sizes 16, 8, 4, 2, 1, the   *)
(* powers of two up to maxPrec = 19, adding a chunk to the count when the  *)
(* number is divisible by 10^(zeros + chunk); once 16 has been counted it  *)
(* tests only 2 and 1, the chunks that keep the count within maxPrec.      *)
(***************************************************************************)
\* The largest chunk: 16 in the source.
RECURSIVE topChunk(_)
topChunk(c) == IF 2 * c <= maxPrec THEN topChunk(2 * c) ELSE c

\* trailingZerosU128(n), with the count so far and the next chunk c.
RECURSIVE trailingZerosU128(_, _, _)
trailingZerosU128(n, zeros, c) ==
    IF c = 0 THEN zeros
    ELSE IF zeros + c <= maxPrec /\ Uint128_QuoRem64(n, pow10[zeros + c].lo).r = 0
         THEN trailingZerosU128(n, zeros + c, c \div 2)
         ELSE trailingZerosU128(n, zeros, c \div 2)

\* trailingZerosBigInt(n), with the count so far and the next chunk c.
RECURSIVE trailingZerosBigInt(_, _, _)
trailingZerosBigInt(n, zeros, c) ==
    IF c = 0 THEN zeros
    ELSE IF zeros + c <= maxPrec /\ n % pow10Big[zeros + c] = 0
         THEN trailingZerosBigInt(n, zeros + c, c \div 2)
         ELSE trailingZerosBigInt(n, zeros, c \div 2)

\* Decimal.trimTrailingZeros
trimTrailingZeros(d) ==
    LET dBig == GetBig(d.coef)
        trimBig(zeros) ==
            IF zeros = 0 THEN newDecimal(d.neg, bintFromBigInt(dBig), d.prec)
            ELSE IF zeros >= d.prec
                 THEN newDecimal(d.neg,
                                 bintFromBigInt(dBig \div Uint128_Big(pow10[d.prec])), 0)
                 ELSE newDecimal(d.neg,
                                 bintFromBigInt(dBig \div Uint128_Big(pow10[zeros])),
                                 Uint8(d.prec - zeros))
        trimU128(zeros) ==
            IF zeros = 0 THEN newDecimal(d.neg, bintFromU128(d.coef.u128), d.prec)
            ELSE Dec(d.neg,
                     bintFromU128(Uint128_QuoRem(d.coef.u128,
                                                 IF zeros >= d.prec THEN pow10[d.prec]
                                                 ELSE pow10[zeros]).q),
                     IF zeros >= d.prec THEN 0 ELSE Uint8(d.prec - zeros))
    IN IF overflow(d.coef)
       THEN trimBig(trailingZerosBigInt(d.coef.bigInt, 0, topChunk(1)))
       ELSE trimU128(trailingZerosU128(d.coef.u128, 0, topChunk(1)))

\* The sign of d^e: "neg := d.neg; if e%2 == 0 { neg = false }"
powNeg(d, e) == IF e % 2 = 0 THEN FALSE ELSE d.neg

\* Decimal.tryPowIntU128 = (Decimal, err)
tryPowIntU128(d, e) ==
    LET exponentPrec == d.prec * e
        divisor256 == Uint256_NewFromUint128(pow10[exponentPrec - defaultPrec])
        power(result256) ==
            IF result256.err # "nil" THEN DErr(result256.err)
            ELSE IF exponentPrec <= defaultPrec
                 THEN IF ~Uint128_IsZero(result256.val.hi) THEN DErr("errOverflow")
                      ELSE Ok(newDecimal(powNeg(d, e), bintFromU128(result256.val.lo),
                                         Uint8(exponentPrec)))
            ELSE IF Uint256_IsZero(divisor256) THEN DErr("ErrDivideByZero")
            ELSE narrow(powNeg(d, e), Uint256_QuoRem(result256.val, divisor256))
    IN IF overflow(d.coef) THEN DErr("errOverflow")
       ELSE IF e = 0 THEN Ok(One)
       ELSE IF e = 1 THEN Ok(d)
       ELSE IF e < 0 THEN DErr("negative exponent not supported")
       ELSE IF d.coef.u128.hi # 0 /\ e >= 4 THEN DErr("errOverflow")
       ELSE IF exponentPrec > defaultPrec + 2 * maxPrec THEN DErr("errOverflow")
       ELSE power(Uint256_Pow(Uint256_NewFromUint128(d.coef.u128), e))

\* Decimal.tryInversePowIntU128 = (Decimal, err)
tryInversePowIntU128(d, e) ==
    LET exponentNumerator == d.prec * e + defaultPrec
        quotient128(q128) ==
            IF q128.err # "nil" THEN DErr(q128.err)
            ELSE Ok(newDecimal(powNeg(d, e), bintFromU128(q128.q), defaultPrec))
        divide(denominatorB_128) ==
            IF Uint128_IsZero(denominatorB_128) THEN DErr("ErrDivideByZero")
            ELSE IF exponentNumerator <= 2 * maxPrec
                 THEN quotient128(Uint128_QuoRem(pow10[exponentNumerator], denominatorB_128))
            ELSE narrow(powNeg(d, e),
                        Uint256_QuoRem(wide(Uint128_MulFull(pow10[exponentNumerator - 2 * maxPrec],
                                                            pow10[2 * maxPrec])),
                                       Uint256_NewFromUint128(denominatorB_128)))
        power(denominatorB_256) ==
            IF denominatorB_256.err # "nil" THEN DErr(denominatorB_256.err)
            ELSE IF ~Uint128_IsZero(denominatorB_256.val.hi) THEN DErr("errOverflow")
            ELSE divide(denominatorB_256.val.lo)
    IN IF overflow(d.coef) THEN DErr("errOverflow")
       ELSE IF e = 0
            THEN IF bint_IsZero(d.coef) THEN DErr("ErrDivideByZero") ELSE Ok(One)
       ELSE IF e < 0 THEN DErr("negative exponent in tryInversePowIntU128")
       ELSE IF d.coef.u128.hi # 0 /\ e >= 4 THEN DErr("errOverflow")
       ELSE IF exponentNumerator > 4 * maxPrec \/ exponentNumerator < 0
            THEN DErr("errOverflow")
       ELSE power(Uint256_Pow(Uint256_NewFromUint128(d.coef.u128), e))

\* Decimal.powIntInverse: d^(-e) for e > 0
powIntInverse(d, e) ==
    LET result(q) ==
            IF q.err = "nil" THEN q.val
            ELSE newDecimal(powNeg(d, e),
                            bintFromBigInt(Pow10(d.prec * e + defaultPrec)
                                           \div BigExp(GetBig(d.coef), e)),
                            defaultPrec)
    IN result(tryInversePowIntU128(d, e))

\* math.MaxInt32: the largest exponent of PowInt32.
MaxExp == 3

\* The big.Int fallback of PowInt32 from the scale on: dBig is the coefficient
\* of the trimmed receiver, powPrecision the int32 product int32(dTrim.prec) * e
\* and limit int32(defaultPrec); the scale of the result is uint8(powPrecision).
powIntBig(neg, dBig, e, powPrecision, limit) ==
    LET RECURSIVE quo(_, _)
        quo(x, n) == IF n <= 0 \/ x = 0 THEN x ELSE quo(x \div 10, n - 1)
    IN newDecimal(neg,
                  bintFromBigInt(quo(BigExp(dBig, e),
                                     IF powPrecision >= limit THEN powPrecision - limit
                                     ELSE 0)),
                  Uint8(IF powPrecision >= limit THEN limit ELSE powPrecision))

\* PowInt32 with 0^0 = 0.
Decimal_PowInt32_ZeroBase(d, e) ==
    IF bint_IsZero(d.coef) /\ e < 0 THEN DErr("ErrZeroPowNegative")
    ELSE IF bint_IsZero(d.coef) THEN Ok(Zero)
    ELSE IF e = 0 THEN Ok(One)
    ELSE Ok(d)

\* Decimal.PowInt32 = (Decimal, err).  e is an int32 (MaxExp stands for
\* math.MaxInt32), and so are -e and int32(dTrim.prec) * e: int32(x) is x
\* wrapped into -MaxExp - 1 .. MaxExp, so that -math.MinInt32 is math.MinInt32.
Decimal_PowInt32(d, e) ==
    LET int32(x) == ((x + MaxExp + 1) % (2 * MaxExp + 2)) - MaxExp - 1
        result(dTrim, q) ==
            IF q.err = "nil" THEN q
            ELSE Ok(powIntBig(powNeg(d, e), GetBig(dTrim.coef), e, int32(dTrim.prec * e),
                              defaultPrec))
        power(dTrim) ==
            IF e < 0 THEN Ok(powIntInverse(dTrim, int32(-e)))
            ELSE result(dTrim, tryPowIntU128(dTrim, e))
    IN IF bint_IsZero(d.coef) /\ e < 0 THEN DErr("ErrZeroPowNegative")
       ELSE IF e = 0 THEN Ok(One)
       ELSE IF e = 1 THEN Ok(d)
       ELSE power(trimTrailingZeros(d))

\* Decimal.PowToIntPart = (Decimal, err)
Decimal_PowToIntPart(d, e) ==
    LET power(eInt) ==
            IF overflow(eInt.coef) \/ Uint128_Cmp64(eInt.coef.u128, MaxExp) > 0
            THEN DErr("ErrExponentTooLarge")
            ELSE Decimal_PowInt32(d, IF eInt.neg THEN -eInt.coef.u128.lo
                                     ELSE eInt.coef.u128.lo)
    IN IF bint_IsZero(d.coef) /\ e.neg THEN DErr("ErrZeroPowNegative")
       ELSE power(Decimal_Trunc(e, 0))

(***************************************************************************)
(* Square root.  The Newton loop of sqrtU128 ends only when an iterate     *)
(* repeats itself (x1 == x).  The loop is deterministic, so it runs for    *)
(* ever exactly when it reaches an iterate it has seen before without two  *)
(* equal consecutive iterates; seen is the set of iterates so far.         *)
(***************************************************************************)
\* big.Int.Sqrt: the largest r with r * r <= n.
RECURSIVE bigSqrt(_)
bigSqrt(n) ==
    LET step(s) == IF (s + 1) * (s + 1) <= n THEN s + 1 ELSE s
    IN IF n < 2 THEN n ELSE step(2 * bigSqrt(n \div 4))

\* The for loop of sqrtU128 = (x, err, hang)
RECURSIVE newtonLoop(_, _, _)
newtonLoop(scaledCoef256, x, seen) ==
    LET stop(v, err, hang) == [x |-> v, err |-> err, hang |-> hang]
        next(x1) ==
            IF Uint128_Cmp(x1, x) = 0 THEN stop(x1, "nil", FALSE)
            ELSE IF x1 \in seen THEN stop(x1, "nil", TRUE)
            ELSE newtonLoop(scaledCoef256, x1, seen \cup {x1})
        added(sum) ==
            IF sum.carry # 0 THEN stop(x, "errOverflow", FALSE)
            ELSE next(Uint128_Rsh(sum.sum, 1))
        divided(y) ==
            IF y.err # "nil" THEN stop(x, y.err, FALSE)
            ELSE IF ~Uint128_IsZero(y.q.hi) THEN stop(x, "errOverflow", FALSE)
            ELSE added(Uint128_AddCarry(x, y.q.lo, 0))
    IN IF Uint128_IsZero(x) THEN stop(x, "sqrt iteration led to zero guess", FALSE)
       ELSE divided(Uint256_QuoRem(scaledCoef256, Uint256_NewFromUint128(x)))

\* Decimal.sqrtU128 = (Decimal, err), or no return at all (hang)
sqrtU128(d) ==
    LET factor == 2 * defaultPrec - d.prec
        stop(v, err, hang) == [val |-> v, err |-> err, hang |-> hang]
        result(n) ==
            IF n.hang THEN stop(Zero, "nil", TRUE)
            ELSE IF n.err # "nil" THEN stop(Zero, n.err, FALSE)
            ELSE stop(newDecimal(FALSE, bintFromU128(n.x), defaultPrec), "nil", FALSE)
        iterate(scaledCoef256, x0) == result(newtonLoop(scaledCoef256, x0, {x0}))
        guess(scaledCoef256, shiftAmount) ==
            iterate(scaledCoef256,
                    IF shiftAmount > 2 * WordBits - 1 THEN Max128
                    ELSE Uint128_Lsh(New(1, 0), shiftAmount))
        measured(scaledCoef256, bitLen) ==
            IF scaledCoef256.hi.hi # 0 THEN stop(Zero, "errOverflow", FALSE)
            ELSE IF bitLen = 0 THEN stop(Zero, "nil", FALSE)
            ELSE guess(scaledCoef256, (bitLen + 1) \div 2)
        scaled(scaledCoef256) == measured(scaledCoef256, Uint256_BitLen(scaledCoef256))
    IN IF factor < 0 \/ factor >= 2 * maxPrec + 1
       THEN stop(Zero, "scaling factor out of range", FALSE)
       ELSE scaled(wide(Uint128_MulFull(d.coef.u128, pow10[factor])))

\* Decimal.Sqrt = (Decimal, err), or no return at all (hang)
Decimal_Sqrt(d) ==
    LET stop(v, err) == [val |-> v, err |-> err, hang |-> FALSE]
        coef == GetBig(d.coef) * Uint128_Big(pow10[Uint8(2 * defaultPrec - d.prec)])
        result(q) ==
            IF q.hang \/ q.err = "nil" THEN q
            ELSE stop(newDecimal(FALSE, bintFromBigInt(bigSqrt(coef)), defaultPrec),
                      "nil")
    IN IF d.neg THEN stop(Zero, "ErrSqrtNegative")
       ELSE IF bint_IsZero(d.coef) THEN stop(Zero, "nil")
       ELSE IF Decimal_Cmp(d, One) = 0 THEN stop(One, "nil")
       ELSE IF overflow(d.coef)
            THEN stop(newDecimal(FALSE, bintFromBigInt(bigSqrt(coef)), defaultPrec),
                      "nil")
       ELSE result(sqrtU128(d))

(***************************************************************************)
(* Calls of package decimal.  A program builds a Decimal with a            *)
(* constructor, calls a method on it and keeps a Decimal the call returned *)
(* as the receiver of its next call: a holds the receiver, b the argument  *)
(* of the last call and out what it returned.  The second operand of a     *)
(* binary operation is the receiver itself or one of Operands.             *)
(***************************************************************************)
\* A coefficient kept as a receiver has at most ExtraBits bits more than a
\* Uint128.
ExtraBits == 1

\* The bits of the largest *big.Int a power is computed for.
MaxBigBits == 29

\* x^e <= cap
RECURSIVE expFits(_, _, _)
expFits(x, e, cap) ==
    IF e <= 0 \/ x <= 1 THEN cap >= 1 ELSE cap >= x /\ expFits(x, e - 1, cap \div x)

Operands ==
    {Decimal_NewFromHiLo(t[1], t[2], t[3], t[4]).val :
        t \in {<<FALSE, 0, 0, 0>>, <<FALSE, 0, 1, 0>>, <<TRUE, 0, 1, 0>>,
               <<FALSE, 0, 1, maxPrec>>, <<TRUE, 0, 5, maxPrec>>, <<FALSE, 1, MaxUint64, 0>>,
               <<FALSE, MaxUint64, MaxUint64, 0>>, <<TRUE, MaxUint64, MaxUint64, maxPrec>>}}

\* What a call returned: the Decimals and the error.
Ret(vals, err) == [vals |-> vals, err |-> err, returned |-> TRUE]

\* What a call of the form (Decimal, error) returned; no return when it hangs.
Ret1(r) ==
    IF "hang" \in DOMAIN r /\ r.hang
    THEN [vals |-> <<>>, err |-> "nil", returned |-> FALSE]
    ELSE Ret(<<r.val>>, r.err)

InitDecimal == op = "init" /\ a = Zero /\ b = None /\ out = None

\* A call of a constructor with the coefficient coef and the precision prec.
Construct(name, coef, prec, result) ==
    /\ op = "init"
    /\ op' = name
    /\ b' = [kind |-> "prec", prec |-> prec, coef |-> coef]
    /\ out' = result
    /\ UNCHANGED a

\* A method call on the receiver a with the argument arg.
Method(name, arg, result) ==
    /\ op = "ready"
    /\ op' = name
    /\ b' = arg
    /\ out' = result
    /\ UNCHANGED a

\* The program keeps a returned Decimal as its next receiver.
Keep ==
    /\ op \notin {"init", "ready"}
    /\ out.returned
    /\ out.err = "nil"
    /\ \E i \in DOMAIN out.vals :
          /\ BigBitLen(GetBig(out.vals[i].coef)) <= 2 * WordBits + ExtraBits
          /\ a' = out.vals[i]
    /\ op' = "ready"
    /\ b' = None
    /\ out' = None

NextDecimal ==
    \/ /\ op = "init"
       /\ \E neg \in BOOLEAN, hi \in Words, lo \in Words, prec \in 0 .. maxPrec + 1 :
             Construct("NewFromHiLo", (IF neg THEN -1 ELSE 1) * (hi * WordMod + lo), prec,
                        Ret1(Decimal_NewFromHiLo(neg, hi, lo, prec)))
    \/ /\ op = "init"
       /\ \E coef \in Words, prec \in 0 .. maxPrec + 1 :
             Construct("NewFromUint64", coef, prec, Ret1(Decimal_NewFromUint64(coef, prec)))
    \/ /\ op = "init"
       /\ \E coef \in -(WordMod \div 2) .. (WordMod \div 2 - 1), prec \in 0 .. maxPrec + 1 :
             Construct("NewFromInt64", coef, prec, Ret1(Decimal_NewFromInt64(coef, prec)))
    \/ Keep
    \/ /\ op = "ready"
       /\ \E e \in Operands \cup {a} : Method("Add", e, Ret(<<Decimal_Add(a, e)>>, "nil"))
    \/ /\ op = "ready"
       /\ \E e \in Operands \cup {a} : Method("Sub", e, Ret(<<Decimal_Sub(a, e)>>, "nil"))
    \/ /\ op = "ready"
       /\ \E e \in Operands \cup {a} : Method("Mul", e, Ret(<<Decimal_Mul(a, e)>>, "nil"))
    \/ /\ op = "ready"
       /\ \E e \in Operands \cup {a} : Method("Div", e, Ret1(Decimal_Div(a, e)))
    \/ /\ op = "ready"
       /\ \E e \in Operands \cup {a} :
             LET ret(r) == Ret(<<r.q, r.r>>, r.err)
             IN Method("QuoRem", e, ret(Decimal_QuoRem(a, e)))
    \/ /\ op = "ready"
       /\ \E e \in Operands \cup {a} :
             LET ret(r) == Ret(<<r.r>>, r.err)
             IN Method("Mod", e, ret(Decimal_QuoRem(a, e)))
    \/ /\ op = "ready"
       /\ \E e \in Operands \cup {a} :
             Method("Cmp", e, [vals |-> <<>>, err |-> "nil", returned |-> TRUE,
                               cmp |-> Decimal_Cmp(a, e)])
    \/ Method("Neg", None, Ret(<<Decimal_Neg(a)>>, "nil"))
    \/ Method("Abs", None, Ret(<<Decimal_Abs(a)>>, "nil"))
    \/ /\ op = "ready"
       /\ \E prec \in 0 .. maxPrec :
             Method("RoundBank", [kind |-> "prec", prec |-> prec],
                    Ret(<<Decimal_RoundBank(a, prec)>>, "nil"))
    \/ /\ op = "ready"
       /\ \E prec \in 0 .. maxPrec :
             Method("RoundAwayFromZero", [kind |-> "prec", prec |-> prec],
                    Ret(<<Decimal_RoundAwayFromZero(a, prec)>>, "nil"))
    \/ /\ op = "ready"
       /\ \E prec \in 0 .. maxPrec :
             Method("RoundHAZ", [kind |-> "prec", prec |-> prec],
                    Ret(<<Decimal_RoundHAZ(a, prec)>>, "nil"))
    \/ /\ op = "ready"
       /\ \E prec \in 0 .. maxPrec :
             Method("RoundHTZ", [kind |-> "prec", prec |-> prec],
                    Ret(<<Decimal_RoundHTZ(a, prec)>>, "nil"))
    \/ Method("Floor", None, Ret(<<Decimal_Floor(a)>>, "nil"))
    \/ Method("Ceil", None, Ret(<<Decimal_Ceil(a)>>, "nil"))
    \/ /\ op = "ready"
       /\ \E prec \in 0 .. maxPrec :
             Method("Trunc", [kind |-> "prec", prec |-> prec],
                    Ret(<<Decimal_Trunc(a, prec)>>, "nil"))
    \/ /\ op = "ready"
       /\ \E e \in -MaxExp - 1 .. MaxExp :
             /\ expFits(GetBig(a.coef), IF e < 0 THEN -e ELSE e, Pow2(MaxBigBits))
             /\ Method("PowInt32", [kind |-> "exp", exp |-> e], Ret1(Decimal_PowInt32(a, e)))
    \/ /\ op = "ready"
       /\ \E e \in Operands \cup {a}
                     \cup {Decimal_NewFromInt64(k, 0).val : k \in -MaxExp .. MaxExp} :
             /\ IF GetBig(Decimal_Trunc(e, 0).coef) > MaxExp THEN TRUE
                ELSE expFits(GetBig(a.coef), GetBig(Decimal_Trunc(e, 0).coef), Pow2(MaxBigBits))
             /\ Method("PowToIntPart", e, Ret1(Decimal_PowToIntPart(a, e)))
    \/ Method("Int64", None, [vals |-> <<>>, err |-> Decimal_Int64(a).err, returned |-> TRUE,
                              int64 |-> Decimal_Int64(a).val])
    \/ Method("Sqrt", None, Ret1(Decimal_Sqrt(a)))

SpecDecimal == InitDecimal /\ [][NextDecimal]_vars

\* const defaultPrec uint8 = 19, at the width of the source.
defaultPrec19 == 19

\* PowInt32 on the powers of ten 10^-prec (NewFromUint64(1, prec), either sign)
\* at the widths of the source: prec in 1..19 and int32 exponents e with
\* prec * e > defaultPrec + 38, for which tryPowIntU128 returns errOverflow
\* and the big.Int branch computes the result.  powPrecision is the int32
\* product int32(dTrim.prec) * e, computed on 16-bit halves.
NextPowScale ==
    LET half == 65536
        int32(hi, lo) == IF hi >= half \div 2 THEN (hi - half) * half + lo ELSE hi * half + lo
        powPrecision(prec, e) ==
            int32((prec * (e \div half) + (prec * (e % half)) \div half) % half,
                  (prec * (e % half)) % half)
    IN \/ \E neg \in BOOLEAN, prec \in 1 .. defaultPrec19 :
             /\ op = "init"
             /\ op' = "NewFromInt64"
             /\ a' = Dec(neg, bintFromU64(1), prec)
             /\ UNCHANGED <<b, out>>
       \/ \E e \in {58, 65536, 113025455, 113025456, 226050911, 1073741824, 1431655766,
                    2147483647} :
             /\ op = "NewFromInt64"
             /\ e > (defaultPrec19 + 38) \div a.prec
             /\ op' = "PowInt32"
             /\ b' = [kind |-> "exp", exp |-> e, limit |-> defaultPrec19]
             /\ out' = Ret(<<powIntBig(powNeg(a, e), GetBig(trimTrailingZeros(a).coef), e,
                                       powPrecision(trimTrailingZeros(a).prec, e),
                                       defaultPrec19)>>, "nil")
             /\ UNCHANGED a

SpecPowScale == InitDecimal /\ [][NextPowScale]_vars

\* C10: canonical zero: every Decimal a constructor or an operation (Add, Sub,
\* Mul, Div, QuoRem, Neg, Abs, the Round family, Floor, Ceil, Trunc, PowInt32,
\* Sqrt) returns, after any sequence of them, that has a zero coefficient is the
\* value Zero: neg = false, prec = 0.
C10_CanonicalZero ==
    LET returned == IF op \in {"init", "ready"} THEN {a}
                    ELSE {a} \cup {out.vals[i] : i \in DOMAIN out.vals}
    IN \A d \in returned :
          bint_IsZero(d.coef) => d.neg = FALSE /\ d.prec = 0 /\ d = Zero

\* x.Sub(x) for a negative x with fractional digits returned Zero.
C10_Witness ==
    /\ op = "Sub"
    /\ b = a
    /\ a.neg
    /\ a.prec > 0
    /\ out.vals = <<Zero>>

MaxHeld == 3

\* A GetBig that returns the *big.Int of the coefficient itself.
GetBigCell_Shared(c, fresh) == IF overflow(c) THEN c.bigInt ELSE fresh

\* bint.GetBig as a pointer: the address of the *big.Int it returns for the
\* coefficient c, fresh being the address of a *big.Int no Decimal holds.  A
\* coefficient is never shared with the caller: the result is a new *big.Int.
GetBigCell(c, fresh) == fresh

\* The value of the Decimal d held on heap.
load(heap, d) ==
    IF overflow(d.coef) THEN Dec(d.neg, bintFromBigInt(heap[d.coef.bigInt]), d.prec) ELSE d

\* A call on the receiver b[i] with the argument e.  writes are the final
\* values <<"d" or "e", value>> of the *big.Ints GetBig returned for d.coef and
\* e.coef that the fallback computed in place, shares tells that the result has
\* the coefficient of the receiver, result is what the call returns.  The
\* program holds the Decimals returned without error whose coefficient has at
\* most ExtraBits bits more than a Uint128.
HeapCall(name, i, e, writes, shares, result) ==
    LET target(w) == GetBigCell(IF w[1] = "d" THEN b[i].coef ELSE e.coef, 0)
        write(heap, w) ==
            IF target(w) \in DOMAIN heap THEN [heap EXCEPT ![target(w)] = w[2]] ELSE heap
        written1 == IF Len(writes) >= 1 THEN write(a, writes[1]) ELSE a
        written  == IF Len(writes) >= 2 THEN write(written1, writes[2]) ELSE written1
        fits(r) == BigBitLen(GetBig(r.coef)) <= 2 * WordBits + ExtraBits
        kept == IF result.err = "nil" THEN SelectSeq(result.vals, fits) ELSE <<>>
        place(heap, r) ==
            IF overflow(r.coef) /\ ~shares THEN Append(heap, r.coef.bigInt) ELSE heap
        held(heap, r) ==
            IF overflow(r.coef)
            THEN Dec(r.neg,
                     bintFromBigInt(IF shares THEN b[i].coef.bigInt ELSE Len(heap) + 1),
                     r.prec)
            ELSE r
        placed1 == IF Len(kept) >= 1 THEN place(written, kept[1]) ELSE written
    IN /\ Len(b) < MaxHeld
       /\ result.returned
       /\ Len(b) + Len(kept) <= MaxHeld
       /\ op' = name
       /\ a' = IF Len(kept) >= 2 THEN place(placed1, kept[2]) ELSE placed1
       /\ b' = b \o (IF Len(kept) = 0 THEN <<>>
                      ELSE IF Len(kept) = 1 THEN <<held(written, kept[1])>>
                      ELSE <<held(written, kept[1]), held(placed1, kept[2])>>)
       /\ out' = out \o kept

\* The program holds one Decimal: a constructed one or the sum of two.
InitHeap ==
    /\ op = "init"
    /\ \E d \in Operands \cup {Decimal_Add(x, x) : x \in Operands} :
          /\ a = IF overflow(d.coef) THEN <<d.coef.bigInt>> ELSE <<>>
          /\ b = <<IF overflow(d.coef) THEN Dec(d.neg, bintFromBigInt(1), d.prec) ELSE d>>
          /\ out = <<d>>

NextHeap ==
    \/ \E i \in DOMAIN b, j \in DOMAIN b :
          LET call(d, e) == HeapCall("Add", i, b[j], <<>>, FALSE, Ret(<<Decimal_Add(d, e)>>, "nil"))
          IN call(load(a, b[i]), load(a, b[j]))
    \/ \E i \in DOMAIN b, j \in DOMAIN b :
          LET call(d, e) == HeapCall("Sub", i, b[j], <<>>, FALSE, Ret(<<Decimal_Sub(d, e)>>, "nil"))
          IN call(load(a, b[i]), load(a, b[j]))
    \/ \E i \in DOMAIN b, j \in DOMAIN b :
          LET call(d, e) ==
                  HeapCall("Mul", i, b[j],
                           IF tryMulU128(d, e, d.neg # e.neg, Uint8(d.prec + e.prec)).err = "nil"
                           THEN <<>>
                           ELSE <<(<<"d", GetBig(d.coef) * GetBig(e.coef)>>)>>,
                           FALSE, Ret(<<Decimal_Mul(d, e)>>, "nil"))
          IN call(load(a, b[i]), load(a, b[j]))
    \/ \E i \in DOMAIN b, v \in {0, 1, 3, MaxUint64} :
          LET call(d) ==
                  HeapCall("Mul64", i, None,
                           IF v \in {0, 1}
                              \/ (~overflow(d.coef) /\ Uint128_Mul64(d.coef.u128, v).err = "nil")
                           THEN <<>>
                           ELSE <<(<<"d", GetBig(d.coef) * v>>)>>,
                           v = 1, Ret(<<Decimal_Mul64(d, v)>>, "nil"))
          IN call(load(a, b[i]))
    \/ \E i \in DOMAIN b, j \in DOMAIN b :
          LET call(d, e) ==
                  HeapCall("Div", i, b[j],
                           IF bint_IsZero(e.coef) \/ tryDivU128(d, e, d.neg # e.neg).err = "nil"
                           THEN <<>>
                           ELSE <<(<<"d", (GetBig(d.coef) * Uint128_Big(pow10[divFactor(d, e)]))
                                          \div GetBig(e.coef)>>)>>,
                           FALSE, Ret1(Decimal_Div(d, e)))
          IN call(load(a, b[i]), load(a, b[j]))
    \/ \E i \in DOMAIN b, v \in {0, 1, 3, MaxUint64} :
          LET call(d, r) ==
                  HeapCall("Div64", i, None,
                           IF v \in {0, 1} \/ (~overflow(d.coef) /\ ~overflow(r.val.coef)) THEN <<>>
                           ELSE <<(<<"d", GetBig(r.val.coef)>>)>>,
                           v = 1, Ret1(r))
          IN call(load(a, b[i]), Decimal_Div64(load(a, b[i]), v))
    \/ \E i \in DOMAIN b, j \in DOMAIN b :
          LET factor(d, e) == IF d.prec >= e.prec THEN d.prec ELSE e.prec
              ret(r) == Ret(<<r.q, r.r>>, r.err)
              call(d, e) ==
                  HeapCall("QuoRem", i, b[j],
                           IF bint_IsZero(e.coef) \/ tryQuoRemU128(d, e).err = "nil" THEN <<>>
                           ELSE <<(<<"d", GetBig(d.coef)
                                          * Uint128_Big(pow10[factor(d, e) - d.prec])>>),
                                  (<<"e", GetBig(e.coef)
                                          * Uint128_Big(pow10[factor(d, e) - e.prec])>>)>>,
                           FALSE, ret(Decimal_QuoRem(d, e)))
          IN call(load(a, b[i]), load(a, b[j]))
    \/ \E i \in DOMAIN b, j \in DOMAIN b :
          LET call(d, e) ==
                  HeapCall("Cmp", i, b[j],
                           IF d.neg # e.neg \/ tryCmpU128(d, e).err = "nil" \/ d.prec = e.prec
                           THEN <<>>
                           ELSE IF d.prec < e.prec
                                THEN <<(<<"d", GetBig(d.coef)
                                               * Uint128_Big(pow10[e.prec - d.prec])>>)>>
                                ELSE <<(<<"e", GetBig(e.coef)
                                               * Uint128_Big(pow10[d.prec - e.prec])>>)>>,
                           FALSE, Ret(<<>>, "nil"))
          IN call(load(a, b[i]), load(a, b[j]))
    \/ \E i \in DOMAIN b :
          HeapCall("Neg", i, None, <<>>, TRUE, Ret(<<Decimal_Neg(load(a, b[i]))>>, "nil"))
    \/ \E i \in DOMAIN b :
          HeapCall("Abs", i, None, <<>>, TRUE, Ret(<<Decimal_Abs(load(a, b[i]))>>, "nil"))
    \/ \E i \in DOMAIN b, prec \in 0 .. maxPrec :
          HeapCall("RoundBank", i, None, <<>>, prec >= b[i].prec,
                   Ret(<<Decimal_RoundBank(load(a, b[i]), prec)>>, "nil"))
    \/ \E i \in DOMAIN b, prec \in 0 .. maxPrec :
          HeapCall("RoundAwayFromZero", i, None, <<>>, prec >= b[i].prec,
                   Ret(<<Decimal_RoundAwayFromZero(load(a, b[i]), prec)>>, "nil"))
    \/ \E i \in DOMAIN b, prec \in 0 .. maxPrec :
          HeapCall("RoundHAZ", i, None, <<>>, prec >= b[i].prec,
                   Ret(<<Decimal_RoundHAZ(load(a, b[i]), prec)>>, "nil"))
    \/ \E i \in DOMAIN b, prec \in 0 .. maxPrec :
          HeapCall("RoundHTZ", i, None, <<>>, prec >= b[i].prec,
                   Ret(<<Decimal_RoundHTZ(load(a, b[i]), prec)>>, "nil"))
    \/ \E i \in DOMAIN b :
          HeapCall("Floor", i, None, <<>>, b[i].prec = 0,
                   Ret(<<Decimal_Floor(load(a, b[i]))>>, "nil"))
    \/ \E i \in DOMAIN b :
          HeapCall("Ceil", i, None, <<>>, b[i].prec = 0,
                   Ret(<<Decimal_Ceil(load(a, b[i]))>>, "nil"))
    \/ \E i \in DOMAIN b, prec \in 0 .. maxPrec :
          HeapCall("Trunc", i, None, <<>>, prec >= b[i].prec,
                   Ret(<<Decimal_Trunc(load(a, b[i]), prec)>>, "nil"))
    \/ \E i \in DOMAIN b, e \in -MaxExp .. MaxExp :
          LET call(d) ==
                  HeapCall("PowInt32", i, None,
                           IF (bint_IsZero(d.coef) /\ e < 0) \/ e \in {0, 1} \/ ~overflow(d.coef)
                              \/ trailingZerosBigInt(d.coef.bigInt, 0, topChunk(1)) = 0
                           THEN <<>>
                           ELSE <<(<<"d", GetBig(trimTrailingZeros(d).coef)>>)>>,
                           e = 1, Ret1(Decimal_PowInt32(d, e)))
          IN /\ expFits(GetBig(load(a, b[i]).coef), IF e < 0 THEN -e ELSE e, Pow2(MaxBigBits))
             /\ call(load(a, b[i]))
    \/ \E i \in DOMAIN b :
          LET fallback(d, r) ==
                  IF d.neg \/ bint_IsZero(d.coef) \/ Decimal_Cmp(d, One) = 0 THEN <<>>
                  ELSE (IF overflow(d.coef) /\ d.prec > 0
                        THEN <<(<<"e", Uint128_Big(pow10[d.prec])>>)>> ELSE <<>>)
                       \o (IF overflow(d.coef) \/ overflow(r.val.coef)
                           THEN <<(<<"d", GetBig(r.val.coef)>>)>> ELSE <<>>)
              call(d, r) == HeapCall("Sqrt", i, One, IF r.hang THEN <<>> ELSE fallback(d, r),
                                     FALSE, Ret1(r))
          IN call(load(a, b[i]), Decimal_Sqrt(load(a, b[i])))

SpecHeap == InitHeap /\ [][NextHeap]_vars

C13_AddSubExact ==
    LET num(d) == (IF d.neg THEN -1 ELSE 1) * GetBig(d.coef) * Pow10(maxPrec - d.prec)
        r == out.vals[1]
    IN /\ op \in {"Add", "Sub"} =>
             /\ r = Zero \/ r.prec = IF a.prec >= b.prec THEN a.prec ELSE b.prec
             /\ num(r) = IF op = "Add" THEN num(a) + num(b) ELSE num(a) - num(b)
       /\ op = "Add" => Decimal_Cmp(Decimal_Sub(r, b), a) = 0

\* C14: Mul: with s = d.prec + e.prec, d.Mul(e) is Zero when the product is
\* zero and otherwise negative iff exactly one operand is negative, with the
\* scale s and the coefficient d.coef * e.coef when s <= defaultPrec, with the
\* scale defaultPrec and the coefficient floor(d.coef * e.coef / 10^(s -
\* defaultPrec)) when s > defaultPrec; the Uint128 path returns a value only when
\* that coefficient fits in 128 bits.
C14_MulExact ==
    LET s == a.prec + b.prec
        coef == IF s <= defaultPrec THEN GetBig(a.coef) * GetBig(b.coef)
                ELSE (GetBig(a.coef) * GetBig(b.coef)) \div Pow10(s - defaultPrec)
        r == out.vals[1]
    IN op = "Mul" =>
          /\ GetBig(r.coef) = coef
          /\ coef = 0 => r = Zero
          /\ coef # 0 => /\ r.neg = (a.neg # b.neg)
                         /\ r.prec = IF s <= defaultPrec THEN s ELSE defaultPrec
          /\ tryMulU128(a, b, a.neg # b.neg, Uint8(s)).err = "nil" => coef < Pow2(2 * WordBits)

\* A negative product of two fractions that exceeds 128 bits before its last
\* digit is cut off and fits after.
C14_Witness ==
    /\ op = "Mul"
    /\ a.prec + b.prec > defaultPrec
    /\ GetBig(a.coef) * GetBig(b.coef) >= Pow2(2 * WordBits)
    /\ (GetBig(a.coef) * GetBig(b.coef)) % Pow10(a.prec + b.prec - defaultPrec) # 0
    /\ out.vals[1].neg
    /\ ~overflow(out.vals[1].coef)

\* C15: Div: d.Div(e) returns (Decimal{}, ErrDivideByZero) iff e is zero;
\* otherwise it returns a nil error and the Decimal with the coefficient
\* floor(d.coef * 10^(defaultPrec - d.prec + e.prec) / e.coef), Zero when that
\* is zero and else of scale defaultPrec and negative iff the signs of the
\* operands differ; the scaling exponent defaultPrec - (d.prec - e.prec),
\* computed in uint8, is that exponent and lies in 0 .. 2 * defaultPrec.
C15_DivExact ==
    LET coef == (GetBig(a.coef) * Pow10(defaultPrec - a.prec + b.prec)) \div GetBig(b.coef)
        r == out.vals[1]
    IN op = "Div" =>
          /\ out.err = "ErrDivideByZero" <=> bint_IsZero(b.coef)
          /\ out.err = "ErrDivideByZero" => r = Zero
          /\ divFactor(a, b) = defaultPrec - a.prec + b.prec
          /\ divFactor(a, b) \in 0 .. 2 * defaultPrec
          /\ ~bint_IsZero(b.coef) =>
                /\ out.err = "nil"
                /\ GetBig(r.coef) = coef
                /\ coef = 0 => r = Zero
                /\ coef # 0 => r.prec = defaultPrec /\ r.neg = (a.neg # b.neg)

\* A quotient of operands of different signs and scales that is not exact, the
\* divisor having the larger scale.
C15_Witness ==
    /\ op = "Div"
    /\ a.prec < b.prec
    /\ a.neg # b.neg
    /\ out.err = "nil"
    /\ out.vals[1].neg
    /\ (GetBig(a.coef) * Pow10(defaultPrec - a.prec + b.prec)) % GetBig(b.coef) # 0

\* C16: QuoRem: for a non-zero e, d.QuoRem(e) returns an integer q (scale 0)
\* and r with d = q * e + r, |r| < |e|, r zero or with the sign of d, q zero or
\* negative iff the signs of d and e differ; Mod returns the same r; for a zero
\* e both return ErrDivideByZero.
C16_QuoRemExact ==
    LET factor == IF a.prec >= b.prec THEN a.prec ELSE b.prec
        dn == GetBig(a.coef) * Pow10(factor - a.prec)
        en == GetBig(b.coef) * Pow10(factor - b.prec)
        remainder(r) ==
            /\ GetBig(r.coef) * Pow10(factor - r.prec) = dn % en
            /\ r = Zero \/ r.neg = a.neg
        quotient(q) ==
            /\ q.prec = 0
            /\ GetBig(q.coef) = dn \div en
            /\ q = Zero \/ q.neg = (a.neg # b.neg)
    IN op \in {"QuoRem", "Mod"} =>
          IF bint_IsZero(b.coef) THEN out.err = "ErrDivideByZero"
          ELSE /\ out.err = "nil"
               /\ op = "QuoRem" => quotient(out.vals[1]) /\ remainder(out.vals[2])
               /\ op = "Mod" => remainder(out.vals[1])

\* C17: RoundBank(prec) rounds the magnitude half to even: for prec >= d.prec
\* it returns d; otherwise, with k = d.prec - prec, q = floor(coef / 10^k) and
\* r = coef mod 10^k, the coefficient of the result is q + 1 iff 2r > 10^k or
\* 2r = 10^k and q is odd, and q if not; the result is Zero when that is zero
\* and has the scale prec and the sign of d otherwise.
C17_RoundBank ==
    LET k == a.prec - b.prec
        q == GetBig(a.coef) \div Pow10(k)
        r == GetBig(a.coef) % Pow10(k)
        coef == IF 2 * r > Pow10(k) \/ (2 * r = Pow10(k) /\ q % 2 = 1) THEN q + 1 ELSE q
        res == out.vals[1]
    IN op = "RoundBank" =>
          IF b.prec >= a.prec THEN res = a
          ELSE /\ GetBig(res.coef) = coef
               /\ coef = 0 => res = Zero
               /\ coef # 0 => res.prec = b.prec /\ res.neg = a.neg

\* A negative tie with an odd quotient was rounded away from zero (-1.5 to -2).
C17_Witness ==
    /\ op = "RoundBank"
    /\ b.prec < a.prec
    /\ a.neg
    /\ 2 * (GetBig(a.coef) % Pow10(a.prec - b.prec)) = Pow10(a.prec - b.prec)
    /\ (GetBig(a.coef) \div Pow10(a.prec - b.prec)) % 2 = 1
    /\ out.vals[1].neg
    /\ GetBig(out.vals[1].coef) = GetBig(a.coef) \div Pow10(a.prec - b.prec) + 1

C19_FloorCeil ==
    LET signed(d) == (IF d.neg THEN -1 ELSE 1) * GetBig(d.coef)
        res == out.vals[1]
    IN /\ op \in {"Floor", "Ceil"} => res.prec = 0 /\ (bint_IsZero(res.coef) => res = Zero)
       /\ op = "Floor" =>
             /\ signed(res) * Pow10(a.prec) <= signed(a)
             /\ signed(a) < (signed(res) + 1) * Pow10(a.prec)
       /\ op = "Ceil" =>
             /\ (signed(res) - 1) * Pow10(a.prec) < signed(a)
             /\ signed(a) <= signed(res) * Pow10(a.prec)
             /\ res = Decimal_Neg(Decimal_Floor(Decimal_Neg(a)))

\* Floor of a negative Decimal with a fraction went one below its integer part
\* (-1.5 to -2).
C19_Witness ==
    /\ op = "Floor"
    /\ a.neg
    /\ GetBig(a.coef) % Pow10(a.prec) # 0
    /\ out.vals[1].neg
    /\ GetBig(out.vals[1].coef) = GetBig(a.coef) \div Pow10(a.prec) + 1

\* C20: Cmp is the order of the numeric values whatever the representation:
\* d.Cmp(e) is the sign of value(d) - value(e), e.Cmp(d) is its negation, d
\* written with j more fractional digits (coef * 10^j at the scale prec + j)
\* compares with e as d does, and on the Uint128 path the lower-scale operand
\* times its power of ten is the exact product, held in 256 bits.
C20_CmpOrder ==
    LET signed(d) == (IF d.neg THEN -1 ELSE 1) * GetBig(d.coef)
        factor == IF a.prec >= b.prec THEN a.prec ELSE b.prec
        dn == signed(a) * Pow10(factor - a.prec)
        en == signed(b) * Pow10(factor - b.prec)
        abs(n) == IF n < 0 THEN -n ELSE n
        held(n) == IF n < Mod128 THEN bintFromU128(New(n % WordMod, n \div WordMod))
                   ELSE bintFromBigInt(n)
        rescaled(d, j) == Dec(d.neg, held(GetBig(d.coef) * Pow10(j)), d.prec + j)
        scaled == IF a.prec < b.prec
                  THEN Uint128_MulFull(a.coef.u128, pow10[b.prec - a.prec])
                  ELSE Uint128_MulFull(b.coef.u128, pow10[a.prec - b.prec])
    IN op = "Cmp" =>
          /\ out.cmp = IF dn < en THEN -1 ELSE IF dn > en THEN 1 ELSE 0
          /\ Decimal_Cmp(b, a) = -out.cmp
          /\ \A j \in 0 .. maxPrec - a.prec : Decimal_Cmp(rescaled(a, j), b) = out.cmp
          /\ \A j \in 0 .. maxPrec - b.prec : Decimal_Cmp(a, rescaled(b, j)) = out.cmp
          /\ tryCmpU128(a, b).err = "nil" /\ a.prec # b.prec =>
                Val256(wide(scaled)) = abs(IF a.prec < b.prec THEN dn ELSE en)

\* Two Uint128 coefficients of the same sign were compared, the one of the
\* lower scale needing more than 128 bits once scaled.
C20_Witness ==
    /\ op = "Cmp"
    /\ a.prec < b.prec
    /\ a.neg = b.neg
    /\ tryCmpU128(a, b).err = "nil"
    /\ GetBig(a.coef) * Pow10(b.prec - a.prec) >= Mod128
    /\ out.cmp = IF a.neg THEN -1 ELSE 1

\* C21: the special cases of PowInt32: a zero d to a negative e returns
\* (Decimal{}, ErrZeroPowNegative); every d, zero included, to the power 0
\* returns One and a nil error; the power 1 returns d itself; a zero d to an
\* e > 1 returns Zero.
C21_PowSpecial ==
    op = "PowInt32" =>
       /\ bint_IsZero(a.coef) /\ b.exp < 0 =>
             out.err = "ErrZeroPowNegative" /\ out.vals = <<Zero>>
       /\ b.exp = 0 => out.err = "nil" /\ out.vals = <<One>>
       /\ b.exp = 1 => out.err = "nil" /\ out.vals = <<a>>
       /\ bint_IsZero(a.coef) /\ b.exp > 1 => out.err = "nil" /\ out.vals = <<Zero>>

\* Zero to the power 0 returned One.
C21_Witness ==
    /\ op = "PowInt32"
    /\ a = Zero
    /\ b.exp = 0
    /\ out.err = "nil"
    /\ out.vals = <<One>>

\* C22: PowToIntPart: with n the integer part of e (e truncated toward zero),
\* d.PowToIntPart(e) returns ErrExponentTooLarge when |n| > MaxInt32 and
\* otherwise the Decimal and the error d.PowInt32(n) returns: for a zero d an
\* error only for a negative n, and One for n = 0.
C22_PowToIntPart ==
    LET n == (IF b.neg THEN -1 ELSE 1) * (GetBig(b.coef) \div Pow10(b.prec))
    IN op = "PowToIntPart" =>
          IF n > MaxExp \/ n < -MaxExp THEN out.err = "ErrExponentTooLarge"
          ELSE out = Ret1(Decimal_PowInt32(a, n))

\* C24: Int64 returns the integer part of d, truncated toward zero and with
\* the sign of d, whenever that part is in the int64 range, math.MinInt64
\* included, and ErrIntPartOverflow when it is not.
C24_Int64 ==
    LET part == (IF a.neg THEN -1 ELSE 1) * (GetBig(a.coef) \div Pow10(a.prec))
    IN op = "Int64" =>
          IF part \in -(WordMod \div 2) .. (WordMod \div 2 - 1)
          THEN out.err = "nil" /\ out.int64 = part
          ELSE out.err = "ErrIntPartOverflow"

\* C25: NewFromUint64(coef, prec) and NewFromInt64(coef, prec) return the
\* value coef / 10^prec with the trailing zeros removed: the scale of the
\* result is the smallest that represents the value, so a result of a scale
\* above 0 has a coefficient that is no multiple of ten.
C25_ConstructorsTrim ==
    LET signed(d) == (IF d.neg THEN -1 ELSE 1) * GetBig(d.coef)
        trimmed(r) ==
            /\ r.prec <= b.prec
            /\ signed(r) * Pow10(b.prec - r.prec) = b.coef
            /\ r.prec > 0 => GetBig(r.coef) % 10 # 0
    IN op \in {"NewFromUint64", "NewFromInt64"} /\ out.err = "nil" => trimmed(out.vals[1])

\* C23: Sqrt returns ErrSqrtNegative for a negative d, Zero for zero and One
\* for one; for every other d it returns, with a nil error, the non-negative
\* Decimal of the scale defaultPrec whose coefficient is the integer square
\* root of d.coef * 10^(2 * defaultPrec - d.prec), on the Newton path and on
\* the big.Int path.
C23_SqrtValue ==
    LET n == GetBig(a.coef) * Pow10(2 * defaultPrec - a.prec)
        root(r) ==
            /\ ~r.neg
            /\ r.prec = defaultPrec
            /\ GetBig(r.coef) * GetBig(r.coef) <= n
            /\ n < (GetBig(r.coef) + 1) * (GetBig(r.coef) + 1)
    IN op = "Sqrt" =>
          /\ out.returned
          /\ a.neg => out.err = "ErrSqrtNegative"
          /\ ~a.neg =>
                /\ out.err = "nil"
                /\ IF bint_IsZero(a.coef) THEN out.vals = <<Zero>>
                   ELSE IF Decimal_Cmp(a, One) = 0 THEN out.vals = <<One>>
                   ELSE root(out.vals[1])

\* C26: the Uint128/Uint256 path and the big.Int fallback agree: when the
\* operands of Mul, Div, QuoRem, Mod, Cmp, the Round family, Floor, Ceil,
\* Trunc, PowInt32 or Sqrt are Uint128 coefficients and the call returns
\* Uint128 coefficients (the fast path gave the result), each result has the
\* sign, the scale and the coefficient that the fallback branch of the same
\* operation computes from the same operands held as *big.Ints.
C26_FastPathEquivalence ==
    LET big(d) == Dec(d.neg, bintFromBigInt(GetBig(d.coef)), d.prec)
        same(x, y) == x.neg = y.neg /\ x.prec = y.prec /\ GetBig(x.coef) = GetBig(y.coef)
        pair(r) == IF op = "Mod" THEN <<r.r>> ELSE <<r.q, r.r>>
        fallback ==
            CASE op = "Mul" -> <<Decimal_Mul(big(a), big(b))>>
              [] op = "Div" -> <<Decimal_Div(big(a), big(b)).val>>
              [] op \in {"QuoRem", "Mod"} -> pair(Decimal_QuoRem(big(a), big(b)))
              [] op = "RoundBank" -> <<Decimal_RoundBank(big(a), b.prec)>>
              [] op = "RoundAwayFromZero" -> <<Decimal_RoundAwayFromZero(big(a), b.prec)>>
              [] op = "RoundHAZ" -> <<Decimal_RoundHAZ(big(a), b.prec)>>
              [] op = "RoundHTZ" -> <<Decimal_RoundHTZ(big(a), b.prec)>>
              [] op = "Floor" -> <<Decimal_Floor(big(a))>>
              [] op = "Ceil" -> <<Decimal_Ceil(big(a))>>
              [] op = "Trunc" -> <<Decimal_Trunc(big(a), b.prec)>>
              [] op = "PowInt32" -> <<Decimal_PowInt32(big(a), b.exp).val>>
              [] op = "Sqrt" -> <<Decimal_Sqrt(big(a)).val>>
    IN /\ op \in {"Mul", "Div", "QuoRem", "Mod", "RoundBank", "RoundAwayFromZero", "RoundHAZ",
                  "RoundHTZ", "Floor", "Ceil", "Trunc", "PowInt32", "Sqrt"}
          /\ out.returned /\ out.err = "nil"
          /\ ~overflow(a.coef)
          /\ (op \in {"Mul", "Div", "QuoRem", "Mod"} => ~overflow(b.coef))
          /\ (\A i \in DOMAIN out.vals : ~overflow(out.vals[i].coef))
          => \A i \in DOMAIN out.vals : same(out.vals[i], fallback[i])
       /\ op = "Cmp" /\ tryCmpU128(a, b).err = "nil" => out.cmp = Decimal_Cmp(big(a), big(b))

\* C27: Sqrt returns on every input: the Newton loop of sqrtU128 reaches its
\* exit (two equal consecutive iterates) or an overflow return.
C27_SqrtTerminates == op = "Sqrt" => out.returned

\* C28: PowInt32 with a non-zero d and an exponent e >= 2: with t the
\* receiver without its trailing zeros and s = t.prec * e, the call returns a
\* nil error and the Decimal of the value floor(t.coef^e / 10^max(0, s - 19))
\* at the scale min(19, s), negative when d is negative and e is odd (Zero
\* when that coefficient is 0): the scale is never above 19 and the divisor
\* is never another power of ten, whatever the size of s.
C28_PowPositive ==
    LET limit == IF "limit" \in DOMAIN b THEN b.limit ELSE defaultPrec
        t == trimTrailingZeros(a)
        above == t.prec > 0 /\ b.exp > limit \div t.prec
        coef == IF above /\ GetBig(t.coef) = 1 THEN 0
                ELSE IF above
                     THEN BigExp(GetBig(t.coef), b.exp) \div Pow10(t.prec * b.exp - limit)
                     ELSE BigExp(GetBig(t.coef), b.exp)
        value(r) ==
            IF coef = 0 THEN r = Zero
            ELSE /\ r.neg = (a.neg /\ b.exp % 2 = 1)
                 /\ r.prec = (IF above THEN limit ELSE t.prec * b.exp)
                 /\ GetBig(r.coef) = coef
    IN op = "PowInt32" /\ ~bint_IsZero(a.coef) /\ b.exp >= 2 =>
          /\ out.err = "nil"
          /\ value(out.vals[1])

\* C29: PowInt32 with a non-zero d and a negative exponent e, n = -e: with t
\* the receiver without its trailing zeros, the call returns a nil error and
\* the Decimal of the coefficient floor(10^(t.prec * n + defaultPrec) /
\* t.coef^n) at the scale defaultPrec, negative when d is negative and n is
\* odd (Zero when that coefficient is 0), for every e down to math.MinInt32.
C29_PowNegative ==
    LET t == trimTrailingZeros(a)
        n == -b.exp
        coef == Pow10(t.prec * n + defaultPrec) \div BigExp(GetBig(t.coef), n)
        value(r) ==
            IF coef = 0 THEN r = Zero
            ELSE /\ r.neg = (a.neg /\ n % 2 = 1)
                 /\ r.prec = defaultPrec
                 /\ GetBig(r.coef) = coef
    IN op = "PowInt32" /\ ~bint_IsZero(a.coef) /\ b.exp < 0 =>
          /\ out.err = "nil"
          /\ value(out.vals[1])

\* C30: uint128.NewFromBigInt reads its argument only: when the call returns,
\* the *big.Int the caller passed holds the integer it held before the call.
C30_NewFromBigIntPure == op = "Big" => out.back.after = out.big

====
